---- MODULE Spec2Model ----
(***************************************************************************)
(* A model of radian's statistics pipeline: the JSONL session parser, the  *)
(* mtime-keyed cache, the period/project filter, the aggregator and the    *)
(* time-series bucketing engine.                                           *)
(*                                                                         *)
(* Conventions.  A JavaScript Map is a sequence of <<key, value>> pairs in *)
(* insertion order with pairwise distinct keys.  A Date is its time value, *)
(* an integer number of minutes since the epoch (the code counts           *)
(* milliseconds; every date the model handles is a whole minute).  A       *)
(* string that the code only compares for equality is a TLA+ string; a     *)
(* string the code searches or rewrites is a sequence of characters.       *)
(***************************************************************************)
EXTENDS Integers, Sequences, FiniteSets, TLC

VARIABLES
    comp,       \* the component the behaviour exercises
    lines,      \* parser: the lines of the session file, in file order
    result,     \* parser: what parseSessionStats returned for `lines`
    decoded,    \* parser: the latest directory name decoded, its cwd and project
    store,      \* cache: the content of each record file of the cache directory
    lastSet,    \* cache: per session path, the arguments of the latest Cache.set
    setOutcome, \* cache: how the latest Cache.set ended, and whether every
                \* write so far succeeded
    got,        \* cache: the latest Cache.get, its arguments and its value
    race,       \* cache: two invocations at work on one record file
    files,      \* runs: per session path, the file's mtime and lines
    runOut,     \* runs: what the latest run of parseAllSessions returned
    sessions,   \* the list of SessionStats handed to the filter, the
                \* aggregator or the trend engine
    now,        \* the system clock, read by new Date()
    filterOut,  \* filter: the latest filterSessions call and its result
    aggOut,     \* aggregator: the latest aggregate call and its result
    seriesOut,  \* trends: the latest buildTimeSeries call and its result
    topOut,     \* summary: the top tool, model and project of the aggregate
    heap        \* objects: the objects of the sessions and of the calls made
                \* on them, by address

parserVars == <<lines, result, decoded>>
cacheVars == <<store, lastSet, setOutcome, got, race>>
runVars == <<files, runOut>>
pipeVars == <<sessions, now, filterOut, aggOut, seriesOut, topOut, heap>>
vars == <<comp, lines, result, decoded, store, lastSet, setOutcome, got, race, files,
          runOut,
          sessions, now, filterOut, aggOut, seriesOut, topOut, heap>>

(***************************************************************************)
(* Generic helpers                                                         *)
(***************************************************************************)
Range(s) == {s[i] : i \in 1..Len(s)}

Max2(a, b) == IF a > b THEN a ELSE b

(***************************************************************************)
(* Dates.  A time value is a number of minutes since 1970-01-01T00:00Z.    *)
(* The calendar fields are those of the proleptic Gregorian calendar, as   *)
(* Date.prototype.getUTC* and Date.UTC compute them (months 0..11,         *)
(* weekdays 0 = Sunday .. 6 = Saturday).                                   *)
(***************************************************************************)
MinutesPerDay == 24 * 60

DayOf(t) == t \div MinutesPerDay

MinuteOfDay(t) == t % MinutesPerDay

\* The civil date <<year, month (1..12), day>> of a day number, computed in
\* steps: the 400-year era and the day of the era, the year of the era, the
\* day of the year counted from March 1st, the month, the day.
CivilOfMonth(y, m, d) == <<y + (IF m <= 2 THEN 1 ELSE 0), m, d>>

CivilOfMarchMonth(y, doy, mp) ==
    CivilOfMonth(y, IF mp < 10 THEN mp + 3 ELSE mp - 9,
                 doy - (153 * mp + 2) \div 5 + 1)

CivilOfDayOfYear(y, doy) == CivilOfMarchMonth(y, doy, (5 * doy + 2) \div 153)

CivilOfYearOfEra(era, doe, yoe) ==
    CivilOfDayOfYear(yoe + era * 400,
                     doe - (365 * yoe + yoe \div 4 - yoe \div 100))

CivilOfDayOfEra(era, doe) ==
    CivilOfYearOfEra(era, doe,
        (doe - doe \div 1460 + doe \div 36524 - doe \div 146096) \div 365)

CivilFromDays(z) ==
    CivilOfDayOfEra((z + 719468) \div 146097, (z + 719468) % 146097)

\* The day number of a civil date (month 1..12; a day below 1 or beyond the
\* end of the month counts on into the neighbouring month).
DaysOfYearOfEra(era, yoe, doy) ==
    era * 146097 + yoe * 365 + yoe \div 4 - yoe \div 100 + doy - 719468

DaysOfMarchYear(y, doy) == DaysOfYearOfEra(y \div 400, y % 400, doy)

DaysFromCivil(y, m, d) ==
    DaysOfMarchYear(IF m <= 2 THEN y - 1 ELSE y,
                    (153 * (IF m > 2 THEN m - 3 ELSE m + 9) + 2) \div 5 + d - 1)

getUTCFullYear(t) == CivilFromDays(DayOf(t))[1]
getUTCMonth(t) == CivilFromDays(DayOf(t))[2] - 1
getUTCDate(t) == CivilFromDays(DayOf(t))[3]
getUTCHours(t) == MinuteOfDay(t) \div 60
getUTCMinutes(t) == MinuteOfDay(t) % 60
getUTCDay(t) == (DayOf(t) + 4) % 7

\* Date.UTC(y, m, d, h, mi) for fields in range, month 0..11.
DateUTC(y, m, d, h, mi) == DaysFromCivil(y, m + 1, d) * MinutesPerDay + h * 60 + mi

\* A date given as on a calendar, month 1..12.
At(y, mo, d, h, mi) == DateUTC(y, mo - 1, d, h, mi)

(***************************************************************************)
(* Numbers.  Counters and token counts are integers far below 2^53, where  *)
(* the addition of JavaScript numbers is exact.  A cost is a fraction of a *)
(* dollar, a binary floating-point number: its addition rounds to the      *)
(* nearest representable number, ties to even.  The model keeps that       *)
(* rounding and scales the significand from 53 bits to MantissaBits bits:  *)
(* a cost is a natural number, representable when it is m * 2^e with       *)
(* m < 2^MantissaBits.                                                     *)
(***************************************************************************)
MantissaBits == 3

MantissaLimit == 2 ^ MantissaBits

\* x rounded to the nearest multiple of u, ties to the even multiple.
RoundToUnit(x, u) ==
    LET q == x \div u
        r == x % u
    IN  IF 2 * r < u THEN q * u
        ELSE IF 2 * r > u THEN (q + 1) * u
        ELSE IF q % 2 = 0 THEN q * u
        ELSE (q + 1) * u

RECURSIVE RoundAtUnit(_, _)
RoundAtUnit(x, u) ==
    IF x < MantissaLimit * u THEN RoundToUnit(x, u) ELSE RoundAtUnit(x, 2 * u)

\* The floating-point number nearest to the natural number x.
FloatRound(x) == RoundAtUnit(x, 1)

\* a + b on two costs.
FloatAdd(a, b) == FloatRound(a + b)

\* Map.prototype.has / get / set on a sequence of <<key, value>> pairs.
MapHas(m, k) == \E i \in 1..Len(m) : m[i][1] = k

MapGet(m, k) == m[CHOOSE i \in 1..Len(m) : m[i][1] = k][2]

MapSet(m, k, v) ==
    IF MapHas(m, k)
    THEN [i \in 1..Len(m) |-> IF m[i][1] = k THEN <<k, v>> ELSE m[i]]
    ELSE Append(m, <<k, v>>)

MapKeys(m) == {m[i][1] : i \in 1..Len(m)}

\* The entries of a Map as a set of key/value pairs (order forgotten).
MapPairs(m) == {<<m[i][1], m[i][2]>> : i \in 1..Len(m)}

(***************************************************************************)
(* Session parser (parser.ts)                                              *)
(***************************************************************************)
\* Bounds of the parser's inputs.
MaxLines == 3

NoUsage == [present |-> FALSE, input |-> 0, output |-> 0, cacheRead |-> 0,
            cacheWrite |-> 0, totalTokens |-> 0, cost |-> 0]

SomeUsage == [present |-> TRUE, input |-> 2, output |-> 1, cacheRead |-> 1,
              cacheWrite |-> 0, totalTokens |-> 4, cost |-> 1]

\* Lines of a session file.  k is what the line is: whitespace only, text
\* JSON.parse rejects (a truncated record), the JSON value null, another JSON
\* value that is not an entry object (a number, a string, {}), or an entry
\* object with its type.
BlankLine == [k |-> "blank"]
MalformedLine == [k |-> "malformed"]
NullLine == [k |-> "null"]
ScalarLine == [k |-> "scalar"]
ModelChangeLine == [k |-> "model_change"]

\* cwd = <<>> is a header without a working directory.
HeaderLine(id, ts, cwd) ==
    [k |-> "session", id |-> id, timestamp |-> ts, cwd |-> cwd]

\* A message entry: role "" is a message with no role (or no message at
\* all); mts = 0 is a message without a timestamp of its own.
\* model and provider are character sequences, <<>> when absent.
MessageLine(role, ts, mts, calls, usage, model, provider, toolName, isError) ==
    [k |-> "message", role |-> role, timestamp |-> ts, mts |-> mts,
     calls |-> calls, usage |-> usage, model |-> model, provider |-> provider,
     toolName |-> toolName, isError |-> isError]

UserLine(ts) ==
    MessageLine("user", ts, 0, <<>>, NoUsage, <<>>, <<>>, "", FALSE)

AssistantLine(ts, mts, calls, usage, model, provider) ==
    MessageLine("assistant", ts, mts, calls, usage, model, provider, "", FALSE)

ToolResultLine(ts, toolName, isError) ==
    MessageLine("toolResult", ts, 0, <<>>, NoUsage, <<>>, <<>>, toolName, isError)

BashExecutionLine(ts) ==
    MessageLine("bashExecution", ts, 0, <<>>, NoUsage, <<>>, <<>>, "", FALSE)

CustomRoleLine(ts) ==
    MessageLine("custom", ts, 0, <<>>, NoUsage, <<>>, <<>>, "", FALSE)

NoRoleLine(ts) ==
    MessageLine("", ts, 0, <<>>, NoUsage, <<>>, <<>>, "", FALSE)

\* The home directory, /h, a working directory under it, /h/src/p, and the
\* encoded name of the directory that holds the session file, --h-src-q--.
HomeDir == <<"/", "h">>
CwdP == <<"/", "h", "/", "s", "r", "c", "/", "p">>
SessionDirName == <<"-", "-", "h", "-", "s", "r", "c", "-", "q", "-", "-">>
UnknownStr == <<"u", "n", "k", "n", "o", "w", "n">>

LineSet ==
    {BlankLine, MalformedLine, NullLine, ScalarLine, ModelChangeLine,
     HeaderLine("s1", 20, CwdP), HeaderLine("s2", 40, <<>>),
     UserLine(10), UserLine(30),
     AssistantLine(30, 0, <<>>, SomeUsage, <<"m">>, <<"p">>),
     AssistantLine(30, 50, <<"bash">>, NoUsage, <<>>, <<>>),
     AssistantLine(30, 0, <<"bash", "read">>, SomeUsage, <<"m">>, <<>>),
     ToolResultLine(30, "bash", TRUE),
     ToolResultLine(30, "read", FALSE),
     BashExecutionLine(60),
     CustomRoleLine(30),
     NoRoleLine(70)}

\* parseSessionFile: the entries of the lines that are not empty after
\* trimming and that JSON.parse accepts, in file order.
parseSessionFile(ls) ==
    SelectSeq(ls, LAMBDA l : l.k \notin {"blank", "malformed"})

\* String.prototype.startsWith and slice(from) on character sequences.
StartsWith(s, p) == Len(s) >= Len(p) /\ SubSeq(s, 1, Len(p)) = p

SliceFrom(s, n) == SubSeq(s, n + 1, Len(s))

\* cwdToProject: the home prefix, a leading /src/ and a leading / are
\* stripped; an empty rest is "~".
cwdToProject(cwd) ==
    LET r0 == IF StartsWith(cwd, HomeDir) THEN SliceFrom(cwd, Len(HomeDir))
              ELSE cwd
        r1 == IF StartsWith(r0, <<"/", "s", "r", "c", "/">>)
              THEN SliceFrom(r0, 5) ELSE r0
        r2 == IF StartsWith(r1, <<"/">>) THEN SliceFrom(r1, 1) ELSE r1
    IN  IF r2 = <<>> THEN <<"~">> ELSE r2

\* decodeDirName: replace(/^--/, "/"), replace(/--$/, ""), then every
\* remaining "-" becomes "/".
decodeDirName(dirName) ==
    LET d0 == IF StartsWith(dirName, <<"-", "-">>)
              THEN <<"/">> \o SliceFrom(dirName, 2) ELSE dirName
        n == Len(d0)
        d1 == IF n >= 2 /\ SubSeq(d0, n - 1, n) = <<"-", "-">>
              THEN SubSeq(d0, 1, n - 2) ELSE d0
    IN  [i \in 1..Len(d1) |-> IF d1[i] = "-" THEN "/" ELSE d1[i]]

NewStats(header) ==
    [id |-> header.id,
     cwd |-> IF header.cwd # <<>> THEN header.cwd
             ELSE decodeDirName(SessionDirName),
     project |-> cwdToProject(IF header.cwd # <<>> THEN header.cwd
                              ELSE decodeDirName(SessionDirName)),
     startTime |-> header.timestamp, endTime |-> header.timestamp,
     duration |-> 0, messageCount |-> 0, userMessages |-> 0,
     assistantMessages |-> 0, toolCalls |-> 0, toolResults |-> 0,
     toolErrors |-> 0,
     tokens |-> [input |-> 0, output |-> 0, cacheRead |-> 0,
                 cacheWrite |-> 0, total |-> 0],
     cost |-> 0, tools |-> <<>>, models |-> <<>>]

\* A variant of the loop over the content blocks that stops after the first
\* toolCall block of a message.
CountToolCalls_FirstBlockOnly(st, calls) ==
    IF calls = <<>> THEN st
    ELSE LET name == Head(calls)
             old == IF MapHas(st.tools, name) THEN MapGet(st.tools, name)
                    ELSE [calls |-> 0, errors |-> 0]
         IN  [st EXCEPT !.toolCalls = @ + 1,
                        !.tools = MapSet(@, name, [old EXCEPT !.calls = @ + 1])]

\* The toolCall blocks of one assistant message, in content order.
RECURSIVE CountToolCalls(_, _)
CountToolCalls(st, calls) ==
    IF calls = <<>> THEN st
    ELSE LET name == Head(calls)
             old == IF MapHas(st.tools, name) THEN MapGet(st.tools, name)
                    ELSE [calls |-> 0, errors |-> 0]
             new == [old EXCEPT !.calls = @ + 1]
         IN  CountToolCalls([st EXCEPT !.toolCalls = @ + 1,
                                       !.tools = MapSet(@, name, new)],
                            Tail(calls))

AssistantUpdate(st, e) ==
    LET u == e.usage
        s1 == IF u.present
              THEN [st EXCEPT !.tokens = [input |-> @.input + u.input,
                                          output |-> @.output + u.output,
                                          cacheRead |-> @.cacheRead + u.cacheRead,
                                          cacheWrite |-> @.cacheWrite + u.cacheWrite,
                                          total |-> @.total + u.totalTokens],
                              !.cost = FloatAdd(@, u.cost)]
              ELSE st
        key == e.model \o <<"@">> \o
                   (IF e.provider # <<>> THEN e.provider ELSE UnknownStr)
        old == IF MapHas(s1.models, key) THEN MapGet(s1.models, key)
               ELSE [calls |-> 0, tokens |-> 0, cost |-> 0]
        new == [calls |-> old.calls + 1,
                tokens |-> old.tokens + u.totalTokens,
                cost |-> FloatAdd(old.cost, u.cost)]
        s2 == IF e.model # <<>> THEN [s1 EXCEPT !.models = MapSet(@, key, new)]
              ELSE s1
    IN  CountToolCalls([s2 EXCEPT !.assistantMessages = @ + 1], e.calls)

\* A variant of the toolResult case that registers the tool of an error
\* result when no call of it was recorded.
ToolResultUpdate_RegistersTool(st, e) ==
    LET s1 == [st EXCEPT !.toolResults = @ + 1]
    IN  IF ~e.isError THEN s1
        ELSE LET old == IF MapHas(s1.tools, e.toolName)
                        THEN MapGet(s1.tools, e.toolName)
                        ELSE [calls |-> 0, errors |-> 0]
             IN  [s1 EXCEPT !.toolErrors = @ + 1,
                            !.tools = MapSet(@, e.toolName,
                                             [old EXCEPT !.errors = @ + 1])]

ToolResultUpdate(st, e) ==
    LET s1 == [st EXCEPT !.toolResults = @ + 1]
    IN  IF ~e.isError THEN s1
        ELSE LET s2 == [s1 EXCEPT !.toolErrors = @ + 1]
             IN  IF MapHas(s2.tools, e.toolName)
                 THEN [s2 EXCEPT !.tools =
                          MapSet(@, e.toolName,
                                 [MapGet(s2.tools, e.toolName)
                                     EXCEPT !.errors = @ + 1])]
                 ELSE s2

\* A variant of the loop body that takes the timestamp of the message as the
\* end of the session without comparing it with the end so far.
MessageUpdate_LastTimestamp(st, e) ==
    IF e.k # "message" \/ e.role = "" THEN st
    ELSE LET ts == IF e.mts # 0 THEN e.mts ELSE e.timestamp
             s1 == [st EXCEPT !.endTime = ts, !.messageCount = @ + 1]
         IN  CASE e.role = "user" -> [s1 EXCEPT !.userMessages = @ + 1]
               [] e.role = "assistant" -> AssistantUpdate(s1, e)
               [] e.role = "toolResult" -> ToolResultUpdate(s1, e)
               [] OTHER -> s1

\* One pass of the loop over the entries (parser.ts 111-188).
MessageUpdate(st, e) ==
    IF e.k # "message" \/ e.role = "" THEN st
    ELSE LET ts == IF e.mts # 0 THEN e.mts ELSE e.timestamp
             s1 == [st EXCEPT !.endTime = IF ts > @ THEN ts ELSE @,
                              !.messageCount = @ + 1]
         IN  CASE e.role = "user" -> [s1 EXCEPT !.userMessages = @ + 1]
               [] e.role = "assistant" -> AssistantUpdate(s1, e)
               [] e.role = "toolResult" -> ToolResultUpdate(s1, e)
               [] OTHER -> s1

RECURSIVE FoldEntries(_, _)
FoldEntries(st, es) ==
    IF es = <<>> THEN st ELSE FoldEntries(MessageUpdate(st, Head(es)), Tail(es))

NullResult == [kind |-> "null"]
Thrown == [kind |-> "throws"]
NotParsed == [kind |-> "none"]

\* parseSessionStats: null for a file with no entry or no header; the
\* property read e.type of an entry that is the JSON value null raises a
\* TypeError, in the search for the header or in the loop over the entries.
parseSessionStats(ls) ==
    LET entries == parseSessionFile(ls)
        isHeader(e) == e.k = "session"
        hasNull == \E i \in 1..Len(entries) : entries[i].k = "null"
    IN  IF entries = <<>> THEN NullResult
        ELSE IF hasNull
                /\ ~\E i \in 1..Len(entries) :
                       /\ isHeader(entries[i])
                       /\ \A j \in 1..i : entries[j].k # "null"
             THEN Thrown     \* entries.find reads null.type
        ELSE IF ~\E i \in 1..Len(entries) : isHeader(entries[i]) THEN NullResult
        ELSE IF hasNull THEN Thrown     \* the loop reads null.type
        ELSE LET header == entries[CHOOSE i \in 1..Len(entries) :
                               /\ isHeader(entries[i])
                               /\ \A j \in 1..(i - 1) : ~isHeader(entries[j])]
                 st == FoldEntries(NewStats(header), entries)
             IN  [kind |-> "stats",
                  stats |-> [st EXCEPT !.duration = st.endTime - st.startTime]]

\* The file grows by appending a line (session logs are append-only).
AppendLine ==
    /\ comp = "parser"
    /\ result = NotParsed
    /\ Len(lines) < MaxLines
    /\ \E l \in LineSet : lines' = Append(lines, l)
    /\ UNCHANGED <<comp, result, decoded, cacheVars, runVars, pipeVars>>

ParseFile ==
    /\ comp = "parser"
    /\ result = NotParsed
    /\ result' = parseSessionStats(lines)
    /\ UNCHANGED <<comp, lines, decoded, cacheVars, runVars, pipeVars>>

\* The cache of a behaviour that does not use it: no record file.
CacheIdle ==
    /\ store = <<>>
    /\ lastSet = <<>>
    /\ setOutcome = <<>>
    /\ got = <<>>
    /\ race = <<>>

\* The session directory of a behaviour that runs no parseAllSessions.
RunsIdle ==
    /\ files = <<>>
    /\ runOut = <<>>

\* The pipeline of a behaviour that filters and aggregates nothing.
PipeIdle ==
    /\ sessions = <<>>
    /\ now = 0
    /\ filterOut = <<>>
    /\ aggOut = <<>>
    /\ seriesOut = <<>>
    /\ topOut = <<>>
    /\ heap = <<>>

\* The parser of a behaviour that parses no single file.
ParserIdle ==
    /\ lines = <<>>
    /\ result = NotParsed
    /\ decoded = <<>>

InitParser ==
    /\ comp = "parser"
    /\ lines = <<>>
    /\ result = NotParsed
    /\ decoded = <<>>
    /\ CacheIdle
    /\ RunsIdle
    /\ PipeIdle

NextParser == AppendLine \/ ParseFile

SpecParser == InitParser /\ [][NextParser]_vars

(***************************************************************************)
(* Cache (cache.ts)                                                        *)
(***************************************************************************)
\* Bounds of the cache's inputs: mtimes 1..MaxMtime.
MaxMtime == 2

SessionPaths == {"a.jsonl", "b.jsonl"}

Mtimes == 1..MaxMtime

\* Date.prototype.toISOString: the calendar fields of the time value, as the
\* text YYYY-MM-DDTHH:mm:ss.sssZ carries them.
toISOString(t) ==
    [year |-> getUTCFullYear(t), month |-> getUTCMonth(t) + 1,
     day |-> getUTCDate(t), hour |-> getUTCHours(t), minute |-> getUTCMinutes(t)]

\* new Date(isoString): the time value of the fields.
DateFromISO(iso) == DateUTC(iso.year, iso.month - 1, iso.day, iso.hour, iso.minute)

\* [...map.entries()]: the entries of a Map as an array, in insertion order.
MapEntries(m) == [i \in 1..Len(m) |-> <<m[i][1], m[i][2]>>]

\* new Map(entries): the pairs are set one after the other, so that a key
\* keeps the place of its first pair and the value of its last.
RECURSIVE MapFromEntriesInto(_, _)
MapFromEntriesInto(m, es) ==
    IF es = <<>> THEN m
    ELSE MapFromEntriesInto(MapSet(m, Head(es)[1], Head(es)[2]), Tail(es))

MapFromEntries(es) == MapFromEntriesInto(<<>>, es)

\* Cache.serialize: the stats with the two dates as ISO strings and the
\* two Maps as arrays of entries.
serialize(stats) ==
    [k |-> "object",
     fields |-> [stats EXCEPT !.startTime = toISOString(@),
                              !.endTime = toISOString(@),
                              !.tools = MapEntries(@),
                              !.models = MapEntries(@)]]

\* What Cache.get returns.
CacheMiss == [kind |-> "null"]

\* A record whose stats object parsed but holds no field: deserialize
\* returns an object with invalid dates and empty Maps.
EmptyStatsObject == [k |-> "empty"]

FieldlessStats == [kind |-> "stats", stats |-> [fieldless |-> TRUE]]

\* Cache.deserialize.
deserialize(raw) ==
    IF raw = EmptyStatsObject THEN FieldlessStats
    ELSE [kind |-> "stats",
          stats |-> [raw.fields EXCEPT !.startTime = DateFromISO(@),
                                       !.endTime = DateFromISO(@),
                                       !.tools = MapFromEntries(@),
                                       !.models = MapFromEntries(@)]]

\* cacheFilePath: the record file of a session path, named by the first 16
\* hex digits of the path's SHA-256 (distinct paths, distinct names).
cacheFilePath(sessionPath) == <<"v1", sessionPath>>

\* The content of a record file.  JSON text is the value it parses to.
Absent == [k |-> "absent"]
GarbageText == [k |-> "garbage"]     \* text JSON.parse rejects
JSONText(v) == [k |-> "json", v |-> v]

\* JSON.stringify of a cache entry; JSON.parse of a file's text.
JSONStringify(v) == JSONText(v)

CacheEntry(mtime, raw) == [k |-> "entry", mtime |-> mtime, stats |-> raw]

FileOf(st, sessionPath) ==
    IF cacheFilePath(sessionPath) \in DOMAIN st THEN st[cacheFilePath(sessionPath)]
    ELSE Absent

\* Cache.get without the comparison of the stored mtime (a mutant).
CacheGetValue_AnyMtime(st, sessionPath, mtime) ==
    LET c == FileOf(st, sessionPath)
    IN  IF c.k # "json" THEN CacheMiss
        ELSE IF c.v.k # "entry" THEN CacheMiss
        ELSE IF c.v.stats.k = "undefined" THEN CacheMiss
        ELSE deserialize(c.v.stats)

\* Cache.get (cache.ts 37-49).  Everything the try block raises is a miss:
\* text that does not parse, the JSON value null (reading null.mtime), an
\* entry without stats (reading undefined.startTime).
CacheGetValue(st, sessionPath, mtime) ==
    LET c == FileOf(st, sessionPath)
    IN  IF c.k # "json" THEN CacheMiss
        ELSE IF c.v.k # "entry" THEN CacheMiss
        ELSE IF c.v.mtime # mtime THEN CacheMiss
        ELSE IF c.v.stats.k = "undefined" THEN CacheMiss
        ELSE deserialize(c.v.stats)

\* Cache.set (cache.ts 52-66): mkdirSync is outside the try block, the
\* write inside it.  A write that fails leaves the file as it was or, the
\* file being truncated on opening, with text that does not parse.
StoreAfterSet(st, sessionPath, mtime, stats) ==
    [f \in DOMAIN st \cup {cacheFilePath(sessionPath)} |->
        IF f = cacheFilePath(sessionPath)
        THEN JSONStringify(CacheEntry(mtime, serialize(stats)))
        ELSE st[f]]

StoreAfterFailedWrite(st, sessionPath) ==
    [f \in DOMAIN st \cup {cacheFilePath(sessionPath)} |->
        IF f = cacheFilePath(sessionPath) THEN GarbageText ELSE st[f]]

\* Sample SessionStats: what the parser returns for a few files.
StatsOfFile(ls) == parseSessionStats(ls).stats

SampleStats ==
    {StatsOfFile(<<HeaderLine("s1", 20, CwdP)>>),
     StatsOfFile(<<HeaderLine("s1", 20, CwdP),
                   AssistantLine(30, 50, <<"bash", "read">>, SomeUsage, <<"m">>, <<"p">>),
                   ToolResultLine(70, "read", TRUE)>>),
     StatsOfFile(<<HeaderLine("s2", At(2026, 2, 10, 10, 0), <<>>),
                   AssistantLine(At(2026, 2, 10, 10, 5), 0, <<"read", "bash">>, SomeUsage,
                                 <<"m">>, <<>>),
                   AssistantLine(At(2027, 1, 1, 0, 0), 0, <<>>, NoUsage, <<"m">>, <<"p">>)>>)}

NoSet == [k |-> "none"]

CacheSetOk(sessionPath, mtime, stats) ==
    /\ store' = StoreAfterSet(store, sessionPath, mtime, stats)
    /\ lastSet' = [p \in DOMAIN lastSet \cup {sessionPath} |->
                      IF p = sessionPath
                      THEN [k |-> "set", mtime |-> mtime, stats |-> stats]
                      ELSE lastSet[p]]
    /\ setOutcome' = [last |-> "returned",
                      allWritten |-> IF setOutcome = <<>> THEN TRUE
                                     ELSE setOutcome.allWritten]

CacheSetWriteFails(sessionPath) ==
    /\ \/ store' = store
       \/ store' = StoreAfterFailedWrite(store, sessionPath)
    /\ setOutcome' = [last |-> "returned", allWritten |-> FALSE]
    /\ UNCHANGED lastSet

CacheSetMkdirFails ==
    /\ setOutcome' = [last |-> "threw", allWritten |-> FALSE]
    /\ UNCHANGED <<store, lastSet>>

CacheSet ==
    /\ comp = "cache"
    /\ \E p \in SessionPaths, m \in Mtimes, s \in SampleStats :
          \/ CacheSetOk(p, m, s)
          \/ CacheSetWriteFails(p)
          \/ CacheSetMkdirFails
    /\ UNCHANGED <<comp, parserVars, got, race, runVars, pipeVars>>

CacheGet ==
    /\ comp \in {"cache", "records"}
    /\ \E p \in SessionPaths, m \in Mtimes :
          got' = [path |-> p, mtime |-> m, value |-> CacheGetValue(store, p, m)]
    /\ UNCHANGED <<comp, parserVars, store, lastSet, setOutcome, race, runVars,
                   pipeVars>>

InitCache ==
    /\ comp = "cache"
    /\ ParserIdle
    /\ CacheIdle
    /\ RunsIdle
    /\ PipeIdle

NextCache == CacheSet \/ CacheGet

SpecCache == InitCache /\ [][NextCache]_vars

(***************************************************************************)
(* Runs of parseAllSessions over a session directory (parser.ts, cache.ts) *)
(***************************************************************************)
\* The discovered session files, in discovery order.
PathOrder == <<"a.jsonl", "b.jsonl">>

\* The lines the session files of a run are made of.
RunLineSet ==
    {HeaderLine("s1", 20, CwdP), UserLine(30),
     AssistantLine(30, 50, <<"bash">>, NoUsage, <<>>, <<>>), NullLine}

\* parseSessionStats of a discovered file: readFileSync raises for a file
\* that cannot be read.
parseDiscovered(file) ==
    IF file.readable THEN parseSessionStats(file.lines) ELSE Thrown

\* parseAllSessions as in parser.ts: every discovered file is parsed, a file
\* whose parse raises or returns null adds nothing.
RECURSIVE parseAllFrom(_, _)
parseAllFrom(fs, paths) ==
    IF paths = <<>> THEN <<>>
    ELSE LET r == parseDiscovered(fs[Head(paths)])
         IN  (IF r.kind = "stats" THEN <<r.stats>> ELSE <<>>)
                 \o parseAllFrom(fs, Tail(paths))

parseAllSessions(fs) == parseAllFrom(fs, PathOrder)

\* parseAllSessions with the cache (the options cacheDir and noCache of
\* index.ts and of the tests): per file, the record of the file's mtime is
\* used when Cache.get returns one; otherwise the file is parsed and, when it
\* yields stats, these are returned and handed to Cache.set.  failing is the
\* set of paths whose record write fails.  The value is the pair of the
\* results and the record files after the run.
RECURSIVE parseAllCachedFrom(_, _, _, _)
parseAllCachedFrom(fs, st, paths, failing) ==
    IF paths = <<>> THEN [results |-> <<>>, store |-> st]
    ELSE LET p == Head(paths)
             cached == CacheGetValue(st, p, fs[p].mtime)
             r == parseDiscovered(fs[p])
             st1 == IF cached.kind = "stats" \/ r.kind # "stats" THEN st
                    ELSE IF p \in failing THEN StoreAfterFailedWrite(st, p)
                    ELSE StoreAfterSet(st, p, fs[p].mtime, r.stats)
             mine == IF cached.kind = "stats" THEN <<cached.stats>>
                     ELSE IF r.kind = "stats" THEN <<r.stats>>
                     ELSE <<>>
             rest == parseAllCachedFrom(fs, st1, Tail(paths), failing)
         IN  [results |-> mine \o rest.results, store |-> rest.store]

parseAllSessionsCached(fs, st, failing) ==
    parseAllCachedFrom(fs, st, PathOrder, failing)

\* A session file is appended to; its mtime changes.
ModifyFile ==
    /\ comp = "runs"
    /\ \E p \in SessionPaths, l \in RunLineSet :
          /\ files[p].mtime < MaxMtime
          /\ files' = [files EXCEPT ![p].mtime = @ + 1,
                                     ![p].lines = Append(@, l)]
    /\ runOut' = <<>>
    /\ UNCHANGED <<comp, parserVars, cacheVars, pipeVars>>

\* A run with the cache enabled.
RunWithCache ==
    /\ comp = "runs"
    /\ \E failing \in SUBSET SessionPaths :
          LET run == parseAllSessionsCached(files, store, failing)
          IN  /\ runOut' = [mode |-> "cache", results |-> run.results]
              /\ store' = run.store
    /\ UNCHANGED <<comp, parserVars, lastSet, setOutcome, got, race, files,
                   pipeVars>>

\* A run with the cache bypassed (noCache).
RunNoCache ==
    /\ comp = "runs"
    /\ runOut' = [mode |-> "noCache", results |-> parseAllSessions(files)]
    /\ UNCHANGED <<comp, parserVars, cacheVars, files, pipeVars>>

\* A record file is lost.
RecordLost ==
    /\ comp \in {"runs", "records"}
    /\ \E f \in DOMAIN store : store' = [store EXCEPT ![f] = Absent]
    /\ UNCHANGED <<comp, parserVars, lastSet, setOutcome, got, race, runVars,
                   pipeVars>>

\* What damage can make of a record: text that does not parse, the JSON
\* value null, an entry that lost its stats, an entry whose stats object lost
\* its fields, an entry one of whose numbers changed (a digit of
\* messageCount became 7).
DamagedRecords(c) ==
    {GarbageText, JSONText([k |-> "null"])}
        \cup (IF c.k = "json" /\ c.v.k = "entry"
              THEN {JSONText(CacheEntry(c.v.mtime, [k |-> "undefined"])),
                    JSONText(CacheEntry(c.v.mtime, EmptyStatsObject))}
                   \cup (IF c.v.stats.k = "object"
                         THEN {JSONText(CacheEntry(c.v.mtime,
                                  [c.v.stats EXCEPT !.fields.messageCount = 7]))}
                         ELSE {})
              ELSE {})

\* A record file is damaged (a failing disk, another program, an edit).
RecordDamaged ==
    /\ comp \in {"runs", "records"}
    /\ \E f \in DOMAIN store :
          \E c \in DamagedRecords(store[f]) : store' = [store EXCEPT ![f] = c]
    /\ UNCHANGED <<comp, parserVars, lastSet, setOutcome, got, race, runVars,
                   pipeVars>>

InitRuns ==
    /\ comp = "runs"
    /\ ParserIdle
    /\ CacheIdle
    /\ files \in [SessionPaths ->
                     {[mtime |-> 1, lines |-> ls, readable |-> TRUE] :
                         ls \in {<<>>, <<HeaderLine("s1", 20, CwdP)>>, <<UserLine(30)>>}}]
    /\ runOut = <<>>
    /\ PipeIdle

NextRuns == ModifyFile \/ RunWithCache \/ RunNoCache \/ RecordLost \/ RecordDamaged

SpecRuns == InitRuns /\ [][NextRuns]_vars

\* A record file that exists and cannot be read (readFileSync raises).
Unreadable == [k |-> "unreadable"]

\* The record Cache.set writes for a mtime and stats.
RecordOf(mtime, stats) == JSONStringify(CacheEntry(mtime, serialize(stats)))

\* A cache directory as earlier runs left it: for each session path no
\* record, a record that cannot be read, or the record of a Cache.set.
InitRecords ==
    /\ comp = "records"
    /\ ParserIdle
    /\ \E a, b \in {Absent, Unreadable}
                     \cup {RecordOf(m, st) : m \in Mtimes, st \in SampleStats} :
          store = [f \in {cacheFilePath(p) : p \in SessionPaths} |->
                      IF f = cacheFilePath("a.jsonl") THEN a ELSE b]
    /\ lastSet = <<>>
    /\ setOutcome = <<>>
    /\ got = <<>>
    /\ race = <<>>
    /\ RunsIdle
    /\ PipeIdle

NextRecords == RecordLost \/ RecordDamaged \/ CacheGet

SpecRecords == InitRecords /\ [][NextRecords]_vars

(***************************************************************************)
(* Two invocations and one record file                                     *)
(***************************************************************************)
Invocations == {"i1", "i2"}

\* The runs of the tool an invocation makes over the session file.
MaxRuns == 2

\* The mtimes the session file has had, and its stats at each (the file is
\* append-only; at the last mtime a tool has been called).
RaceMtimes == 1..3

StatsAt(mtime) ==
    [messageCount |-> 3 + mtime, toolCalls |-> mtime,
     tools |-> IF mtime >= 3 THEN <<"bash">> ELSE <<>>]

\* The text JSON.stringify gives for the record of a mtime and stats, as the
\* sequence of its pieces: the opening, the mtime, the fields of the stats in
\* property order, one piece per tool, the closing.
TextOf(mtime, stats) ==
    <<[k |-> "open"], [k |-> "mtime", v |-> mtime],
      [k |-> "messageCount", v |-> stats.messageCount],
      [k |-> "toolCalls", v |-> stats.toolCalls]>>
        \o [i \in 1..Len(stats.tools) |-> [k |-> "tool", v |-> stats.tools[i]]]
        \o <<[k |-> "close"]>>

\* JSON.parse of a file's text: it raises unless the text is one complete
\* record.
ParsesAsRecord(text) ==
    /\ Len(text) >= 5
    /\ text[1].k = "open"
    /\ text[2].k = "mtime"
    /\ text[3].k = "messageCount"
    /\ text[4].k = "toolCalls"
    /\ \A i \in 5..(Len(text) - 1) : text[i].k = "tool"
    /\ text[Len(text)].k = "close"

\* Cache.get on the record file (cache.ts 37-49).
GetFromFile(file, mtime) ==
    IF ~file.exists THEN CacheMiss
    ELSE IF ~ParsesAsRecord(file.text) THEN CacheMiss
    ELSE IF file.text[2].v # mtime THEN CacheMiss
    ELSE [kind |-> "stats",
          stats |-> [messageCount |-> file.text[3].v,
                     toolCalls |-> file.text[4].v,
                     tools |-> [i \in 1..(Len(file.text) - 5) |->
                                   file.text[4 + i].v]]]

\* write(fd, chunk) at an offset of the file: the pieces at the offset are
\* overwritten, the file grows as needed, a gap reads as NUL.
WriteAt(text, offset, chunk) ==
    [i \in 1..Max2(Len(text), offset + Len(chunk)) |->
        IF i > offset /\ i <= offset + Len(chunk) THEN chunk[i - offset]
        ELSE IF i <= Len(text) THEN text[i]
        ELSE [k |-> "nul"]]

\* An invocation starts a run: Cache.get with the mtime it saw.
RaceGet ==
    /\ comp = "race"
    /\ \E p \in Invocations :
          /\ race.pc[p] = "idle"
          /\ race.runs[p] < MaxRuns
          /\ LET value == GetFromFile(race.file, race.view[p])
             IN  race' = [race EXCEPT
                     !.got[p] = [mtime |-> race.view[p], value |-> value],
                     !.runs[p] = @ + 1,
                     !.pc[p] = IF value = CacheMiss THEN "miss" ELSE "idle"]
    /\ UNCHANGED <<comp, parserVars, store, lastSet, setOutcome, got, runVars,
                   pipeVars>>

\* After a miss: Cache.set; writeFileSync opens the record file, creating or
\* truncating it (cache.ts 62).
RaceOpen ==
    /\ comp = "race"
    /\ \E p \in Invocations :
          /\ race.pc[p] = "miss"
          /\ race' = [race EXCEPT
                 !.file = [exists |-> TRUE, text |-> <<>>],
                 !.offset[p] = 0,
                 !.sets = @ \cup {<<race.view[p], StatsAt(race.view[p])>>},
                 !.pc[p] = "writing"]
    /\ UNCHANGED <<comp, parserVars, store, lastSet, setOutcome, got, runVars,
                   pipeVars>>

\* writeFileSync writes the text at its own offset, in one write or several
\* (the loop over fs.writeSync).
RaceWrite ==
    /\ comp = "race"
    /\ \E p \in Invocations :
          /\ race.pc[p] = "writing"
          /\ LET text == TextOf(race.view[p], StatsAt(race.view[p]))
             IN  \E n \in 1..(Len(text) - race.offset[p]) :
                    race' = [race EXCEPT
                        !.file.text =
                            WriteAt(@, race.offset[p],
                                    SubSeq(text, race.offset[p] + 1,
                                           race.offset[p] + n)),
                        !.offset[p] = @ + n,
                        !.pc[p] = IF race.offset[p] + n = Len(text)
                                  THEN "idle" ELSE "writing"]
    /\ UNCHANGED <<comp, parserVars, store, lastSet, setOutcome, got, runVars,
                   pipeVars>>

\* No record file yet; each invocation saw the session file at some mtime.
InitRace ==
    /\ comp = "race"
    /\ ParserIdle
    /\ store = <<>>
    /\ lastSet = <<>>
    /\ setOutcome = <<>>
    /\ got = <<>>
    /\ \E view \in [Invocations -> RaceMtimes] :
          race = [file |-> [exists |-> FALSE, text |-> <<>>],
                  view |-> view,
                  pc |-> [p \in Invocations |-> "idle"],
                  offset |-> [p \in Invocations |-> 0],
                  runs |-> [p \in Invocations |-> 0],
                  got |-> [p \in Invocations |-> <<>>],
                  sets |-> {}]
    /\ RunsIdle
    /\ PipeIdle

NextRace == RaceGet \/ RaceOpen \/ RaceWrite

SpecRace == InitRace /\ [][NextRace]_vars

(***************************************************************************)
(* One run of parseAllSessions over a directory whose files may be         *)
(* unreadable, headerless or partly corrupt (parser.ts 195-209).           *)
(***************************************************************************)
\* What a discovered session file can hold.
DiscoveredContents ==
    {<<>>,
     <<HeaderLine("s1", 20, CwdP)>>,
     <<HeaderLine("s2", 40, <<>>), UserLine(30)>>,
     <<UserLine(30), HeaderLine("s1", 20, CwdP)>>,
     <<UserLine(10), AssistantLine(30, 50, <<"bash">>, NoUsage, <<>>, <<>>)>>,
     <<MalformedLine, HeaderLine("s2", 40, <<>>), BlankLine>>,
     <<MalformedLine, BlankLine>>,
     <<HeaderLine("s1", 20, CwdP), NullLine>>,
     <<NullLine, HeaderLine("s2", 40, <<>>)>>}

\* The permissions of a session file change.
ToggleReadable ==
    /\ comp = "discovery"
    /\ runOut = <<>>
    /\ \E p \in SessionPaths :
          files' = [files EXCEPT ![p].readable = ~@]
    /\ UNCHANGED <<comp, parserVars, cacheVars, runOut, pipeVars>>

ParseAll ==
    /\ comp = "discovery"
    /\ runOut = <<>>
    /\ runOut' = [mode |-> "plain", results |-> parseAllSessions(files)]
    /\ UNCHANGED <<comp, parserVars, cacheVars, files, pipeVars>>

InitDiscovery ==
    /\ comp = "discovery"
    /\ ParserIdle
    /\ CacheIdle
    /\ files \in [SessionPaths ->
                     {[mtime |-> 1, lines |-> ls, readable |-> TRUE] :
                         ls \in DiscoveredContents}]
    /\ runOut = <<>>
    /\ PipeIdle

NextDiscovery == ToggleReadable \/ ParseAll

SpecDiscovery == InitDiscovery /\ [][NextDiscovery]_vars

(***************************************************************************)
(* Filters (filters.ts).  The calendar fields that periodToRange reads are *)
(* those of the local time zone; the model's zone is a fixed offset from   *)
(* UTC, without daylight saving.                                           *)
(***************************************************************************)
MaxFilterSessions == 2

LocalOffset == 2 * 60

getFullYear(t) == getUTCFullYear(t + LocalOffset)
getMonth(t) == getUTCMonth(t + LocalOffset)
getDate(t) == getUTCDate(t + LocalOffset)
getDay(t) == getUTCDay(t + LocalOffset)

\* new Date(y, m, d): local midnight; a day of the month below 1 rolls back
\* into the preceding month.
DateLocal(y, m, d) == DateUTC(y, m, d, 0, 0) - LocalOffset

\* An option that is not given.
Undefined == -1

Periods == {"today", "week", "month", "quarter", "year", "all"}

\* toLocaleDateString("en-CA"): the local calendar date.
formatDate(d) == <<getFullYear(d), getMonth(d) + 1, getDate(d)>>

\* periodToRange with the week taken to start getDay() - 1 days ago, Sunday
\* not being told apart.
periodToRange_NoSundayCase(period, clock) ==
    LET to == clock
        day == getDay(clock)
        diff == day - 1
        quarterStart == (getMonth(clock) \div 3) * 3
    IN  CASE period = "today" ->
                LET from == DateLocal(getFullYear(clock), getMonth(clock), getDate(clock))
                IN  [from |-> from, to |-> to,
                     label |-> <<"Today", formatDate(from)>>]
          [] period = "week" ->
                LET from == DateLocal(getFullYear(clock), getMonth(clock),
                                      getDate(clock) - diff)
                IN  [from |-> from, to |-> to,
                     label |-> <<"This week", formatDate(from), formatDate(to)>>]
          [] period = "month" ->
                [from |-> DateLocal(getFullYear(clock), getMonth(clock), 1), to |-> to,
                 label |-> <<"Month", getMonth(clock), getFullYear(clock)>>]
          [] period = "quarter" ->
                [from |-> DateLocal(getFullYear(clock), quarterStart, 1), to |-> to,
                 label |-> <<"Q", (quarterStart \div 3) + 1, getFullYear(clock)>>]
          [] period = "year" ->
                [from |-> DateLocal(getFullYear(clock), 0, 1), to |-> to,
                 label |-> <<getFullYear(clock)>>]
          [] period = "all" ->
                [from |-> 0, to |-> to, label |-> <<"All time">>]

periodToRange(period, clock) ==
    LET to == clock
        day == getDay(clock)
        diff == IF day = 0 THEN 6 ELSE day - 1
        quarterStart == (getMonth(clock) \div 3) * 3
    IN  CASE period = "today" ->
                LET from == DateLocal(getFullYear(clock), getMonth(clock), getDate(clock))
                IN  [from |-> from, to |-> to,
                     label |-> <<"Today", formatDate(from)>>]
          [] period = "week" ->
                LET from == DateLocal(getFullYear(clock), getMonth(clock),
                                      getDate(clock) - diff)
                IN  [from |-> from, to |-> to,
                     label |-> <<"This week", formatDate(from), formatDate(to)>>]
          [] period = "month" ->
                [from |-> DateLocal(getFullYear(clock), getMonth(clock), 1), to |-> to,
                 label |-> <<"Month", getMonth(clock), getFullYear(clock)>>]
          [] period = "quarter" ->
                [from |-> DateLocal(getFullYear(clock), quarterStart, 1), to |-> to,
                 label |-> <<"Q", (quarterStart \div 3) + 1, getFullYear(clock)>>]
          [] period = "year" ->
                [from |-> DateLocal(getFullYear(clock), 0, 1), to |-> to,
                 label |-> <<getFullYear(clock)>>]
          [] period = "all" ->
                [from |-> 0, to |-> to, label |-> <<"All time">>]

\* String.prototype.toLowerCase and includes, on strings as sequences of
\* characters.
UpperCase ==
    <<"A", "B", "C", "D", "E", "F", "G", "H", "I", "J", "K", "L", "M",
      "N", "O", "P", "Q", "R", "S", "T", "U", "V", "W", "X", "Y", "Z">>

LowerCase ==
    <<"a", "b", "c", "d", "e", "f", "g", "h", "i", "j", "k", "l", "m",
      "n", "o", "p", "q", "r", "s", "t", "u", "v", "w", "x", "y", "z">>

toLowerCase(s) ==
    [i \in 1..Len(s) |->
        IF \E j \in 1..Len(UpperCase) : UpperCase[j] = s[i]
        THEN LowerCase[CHOOSE j \in 1..Len(UpperCase) : UpperCase[j] = s[i]]
        ELSE s[i]]

includes(s, sub) ==
    \E i \in 1..(Len(s) + 1) :
        /\ i + Len(sub) - 1 <= Len(s)
        /\ SubSeq(s, i, i + Len(sub) - 1) = sub

\* The range filterSessions and aggregate compute from the options.
rangeOf(opts, clock) ==
    IF opts.from # Undefined \/ opts.to # Undefined
    THEN [from |-> IF opts.from # Undefined THEN opts.from ELSE 0,
          to |-> IF opts.to # Undefined THEN opts.to ELSE clock]
    ELSE LET r == periodToRange(opts.period, clock)
         IN  [from |-> r.from, to |-> r.to]

\* The callback with both bounds of the range exclusive.
keepSession_ExclusiveBounds(s, opts, range) ==
    LET proj == toLowerCase(s.project)
    IN  /\ ~(s.startTime <= range.from \/ s.startTime >= range.to)
        /\ opts.project # <<>> => includes(proj, toLowerCase(opts.project))
        /\ \A i \in 1..Len(opts.excludeProjects) :
               ~includes(proj, toLowerCase(opts.excludeProjects[i]))

\* The callback of sessions.filter.  An option project that is undefined or
\* the empty string, and a list excludeProjects that is undefined or empty,
\* are the empty sequence.
keepSession(s, opts, range) ==
    LET proj == toLowerCase(s.project)
    IN  /\ ~(s.startTime < range.from \/ s.startTime > range.to)
        /\ opts.project # <<>> => includes(proj, toLowerCase(opts.project))
        /\ \A i \in 1..Len(opts.excludeProjects) :
               ~includes(proj, toLowerCase(opts.excludeProjects[i]))

filterSessions(ss, opts, clock) ==
    SelectSeq(ss, LAMBDA s : keepSession(s, opts, rangeOf(opts, clock)))

getFilterLabel(opts, clock) ==
    IF opts.from # Undefined \/ opts.to # Undefined
    THEN <<IF opts.from # Undefined THEN formatDate(opts.from) ELSE <<"beginning">>,
           IF opts.to # Undefined THEN formatDate(opts.to) ELSE <<"now">>>>
    ELSE periodToRange(opts.period, clock).label

\* A SessionStats as the parser builds it.
Session(id, project, startTime, endTime, counts, tokens, cost, tools, models) ==
    [id |-> id, cwd |-> HomeDir \o <<"/">> \o project, project |-> project,
     startTime |-> startTime, endTime |-> endTime,
     duration |-> endTime - startTime,
     messageCount |-> counts[1], userMessages |-> counts[2],
     assistantMessages |-> counts[3], toolCalls |-> counts[4],
     toolResults |-> counts[5], toolErrors |-> counts[6],
     tokens |-> [input |-> tokens[1], output |-> tokens[2], cacheRead |-> tokens[3],
                 cacheWrite |-> tokens[4], total |-> tokens[5]],
     cost |-> cost, tools |-> tools, models |-> models]

\* A session without messages.
BareSession(id, project, startTime) ==
    Session(id, project, startTime, startTime, <<0, 0, 0, 0, 0, 0>>,
            <<0, 0, 0, 0, 0>>, 0, <<>>, <<>>)

ClockA == At(2026, 2, 11, 15, 0)
ClockB == At(2026, 3, 1, 10, 0)
ClockC == At(2026, 3, 1, 23, 0)
Clocks == {ClockA, ClockB, ClockC}

FilterSessionSet ==
    {BareSession("f1", <<"s", "r", "c", "/", "P", "i">>, At(2026, 2, 10, 22, 0)),
     BareSession("f2", <<"H", "o", "m", "e">>, At(2026, 2, 9, 10, 0)),
     BareSession("f3", <<"p", "i", "x">>, At(2025, 12, 31, 23, 0)),
     BareSession("f4", <<"h", "o">>, ClockA),
     BareSession("f5", <<"~">>, At(2026, 2, 23, 9, 0))}

FilterOptionSet ==
    [period : Periods,
     from : {Undefined, At(2026, 2, 9, 10, 0)},
     to : {Undefined, At(2026, 2, 10, 22, 0)},
     project : {<<>>, <<"p", "I">>},
     excludeProjects : {<<>>, <<<<"x">>, <<"H", "O", "M">>>>}]

SeqsUpTo(S, n) == UNION {[1..k -> S] : k \in 0..n}

\* The clock moves forward.
AdvanceClock ==
    /\ \E t \in Clocks : t > now /\ now' = t
    /\ UNCHANGED <<comp, parserVars, cacheVars, runVars, sessions, filterOut,
                   aggOut, seriesOut, topOut, heap>>

\* One run of the command filters once.
Filter ==
    /\ comp = "filter"
    /\ filterOut = <<>>
    /\ \E opts \in FilterOptionSet :
           filterOut' = [opts |-> opts, at |-> now,
                         result |-> filterSessions(sessions, opts, now)]
    /\ UNCHANGED <<comp, parserVars, cacheVars, runVars, sessions, now, aggOut,
                   seriesOut, topOut, heap>>

InitFilter ==
    /\ comp = "filter"
    /\ ParserIdle
    /\ CacheIdle
    /\ RunsIdle
    /\ sessions \in SeqsUpTo(FilterSessionSet, MaxFilterSessions)
    /\ now = ClockA
    /\ filterOut = <<>>
    /\ aggOut = <<>>
    /\ seriesOut = <<>>
    /\ topOut = <<>>
    /\ heap = <<>>

NextFilter == AdvanceClock \/ Filter

SpecFilter == InitFilter /\ [][NextFilter]_vars

(***************************************************************************)
(* Aggregator (aggregator.ts) and splitModelKey (utils.ts).                *)
(***************************************************************************)
MaxAggSessions == 3

Digits == {"0", "1", "2", "3", "4", "5", "6", "7", "8", "9"}

\* key.lastIndexOf("@"), counted from 1; 0 when there is none.
lastIndexOfAt(key) ==
    IF \E i \in 1..Len(key) : key[i] = "@"
    THEN CHOOSE i \in 1..Len(key) :
             key[i] = "@" /\ \A j \in (i + 1)..Len(key) : key[j] # "@"
    ELSE 0

\* The split at the first "@" of the key instead of the last.
splitModelKey_FirstAt(key) ==
    LET ats == {i \in 1..Len(key) : key[i] = "@"}
        firstAt == IF ats = {} THEN 0
                   ELSE CHOOSE i \in ats : \A j \in ats : i <= j
        suffix == SubSeq(key, firstAt + 1, Len(key))
    IN  IF firstAt = 0 THEN <<key, UnknownStr>>
        ELSE IF suffix # <<>> /\ \A i \in 1..Len(suffix) : suffix[i] \in Digits
        THEN <<key, UnknownStr>>
        ELSE <<SubSeq(key, 1, firstAt - 1), suffix>>

splitModelKey(key) ==
    LET lastAt == lastIndexOfAt(key)
        suffix == SubSeq(key, lastAt + 1, Len(key))
    IN  IF lastAt = 0 THEN <<key, UnknownStr>>
        ELSE IF suffix # <<>> /\ \A i \in 1..Len(suffix) : suffix[i] \in Digits
        THEN <<key, UnknownStr>>
        ELSE <<SubSeq(key, 1, lastAt - 1), suffix>>

\* lastUsed of a tool already present, after a session that ended at endTime.
lastUsedAfter_Overwrite(lastUsed, endTime) == endTime

\* The update of lastUsed keeping the earlier of the two dates.
lastUsedAfter_Earliest(lastUsed, endTime) ==
    IF endTime < lastUsed THEN endTime ELSE lastUsed

lastUsedAfter(lastUsed, endTime) ==
    IF endTime > lastUsed THEN endTime ELSE lastUsed

\* The loop over session.tools.
RECURSIVE AggregateTools(_, _, _)
AggregateTools(tools, entries, session) ==
    IF entries = <<>> THEN tools
    ELSE LET toolName == Head(entries)[1]
             toolData == Head(entries)[2]
             new == IF MapHas(tools, toolName)
                    THEN LET existing == MapGet(tools, toolName)
                         IN  [name |-> existing.name,
                              calls |-> existing.calls + toolData.calls,
                              errors |-> existing.errors + toolData.errors,
                              sessionIds |-> existing.sessionIds \cup {session.id},
                              lastUsed |-> lastUsedAfter(existing.lastUsed,
                                                         session.endTime)]
                    ELSE [name |-> toolName, calls |-> toolData.calls,
                          errors |-> toolData.errors, sessionIds |-> {session.id},
                          lastUsed |-> session.endTime]
         IN  AggregateTools(MapSet(tools, toolName, new), Tail(entries), session)

\* The loop over session.models.
RECURSIVE AggregateModels(_, _)
AggregateModels(models, entries) ==
    IF entries = <<>> THEN models
    ELSE LET modelKey == Head(entries)[1]
             modelData == Head(entries)[2]
             new == IF MapHas(models, modelKey)
                    THEN LET existing == MapGet(models, modelKey)
                         IN  [existing EXCEPT
                                 !.calls = @ + modelData.calls,
                                 !.tokens.total = @ + modelData.tokens,
                                 !.cost = FloatAdd(@, modelData.cost)]
                    ELSE [model |-> splitModelKey(modelKey)[1],
                          provider |-> splitModelKey(modelKey)[2],
                          calls |-> modelData.calls,
                          tokens |-> [input |-> 0, output |-> 0, cacheRead |-> 0,
                                      cacheWrite |-> 0, total |-> modelData.tokens],
                          cost |-> modelData.cost]
         IN  AggregateModels(MapSet(models, modelKey, new), Tail(entries))

\* The project entry with the user's messages only.
AggregateProject_UserMessages(projects, session) ==
    LET projEntry == IF MapHas(projects, session.project)
                     THEN MapGet(projects, session.project)
                     ELSE [sessions |-> 0, messages |-> 0, toolCalls |-> 0,
                           tokens |-> 0]
    IN  MapSet(projects, session.project,
               [sessions |-> projEntry.sessions + 1,
                messages |-> projEntry.messages + session.userMessages,
                toolCalls |-> projEntry.toolCalls + session.toolCalls,
                tokens |-> projEntry.tokens + session.tokens.total])

\* The project entry of a session.
AggregateProject_Reset(projects, session) ==
    MapSet(projects, session.project,
           [sessions |-> 1, messages |-> session.messageCount,
            toolCalls |-> session.toolCalls, tokens |-> session.tokens.total])

AggregateProject(projects, session) ==
    LET projEntry == IF MapHas(projects, session.project)
                     THEN MapGet(projects, session.project)
                     ELSE [sessions |-> 0, messages |-> 0, toolCalls |-> 0,
                           tokens |-> 0]
    IN  MapSet(projects, session.project,
               [sessions |-> projEntry.sessions + 1,
                messages |-> projEntry.messages + session.messageCount,
                toolCalls |-> projEntry.toolCalls + session.toolCalls,
                tokens |-> projEntry.tokens + session.tokens.total])

\* One iteration of the loop over the sessions.
AggregateSession(stats, session) ==
    [stats EXCEPT
        !.totalMessages = @ + session.messageCount,
        !.totalUserMessages = @ + session.userMessages,
        !.totalAssistantMessages = @ + session.assistantMessages,
        !.totalToolCalls = @ + session.toolCalls,
        !.totalToolErrors = @ + session.toolErrors,
        !.totalTokens = [input |-> @.input + session.tokens.input,
                         output |-> @.output + session.tokens.output,
                         cacheRead |-> @.cacheRead + session.tokens.cacheRead,
                         cacheWrite |-> @.cacheWrite + session.tokens.cacheWrite,
                         total |-> @.total + session.tokens.total],
        !.totalCost = FloatAdd(@, session.cost),
        !.tools = AggregateTools(@, session.tools, session),
        !.models = AggregateModels(@, session.models),
        !.projects = AggregateProject(@, session)]

RECURSIVE AggregateSessions(_, _)
AggregateSessions(stats, ss) ==
    IF ss = <<>> THEN stats
    ELSE AggregateSessions(AggregateSession(stats, Head(ss)), Tail(ss))

aggregate(ss, filterOpts, clock) ==
    LET range == rangeOf(filterOpts, clock)
    IN  AggregateSessions(
            [period |-> [from |-> range.from, to |-> range.to,
                         label |-> getFilterLabel(filterOpts, clock)],
             sessions |-> ss,
             totalSessions |-> Len(ss),
             totalMessages |-> 0, totalUserMessages |-> 0,
             totalAssistantMessages |-> 0, totalToolCalls |-> 0,
             totalToolErrors |-> 0,
             totalTokens |-> [input |-> 0, output |-> 0, cacheRead |-> 0,
                              cacheWrite |-> 0, total |-> 0],
             totalCost |-> 0, tools |-> <<>>, models |-> <<>>, projects |-> <<>>],
            ss)

\* The search that keeps the last entry with the greatest value.
topBy_LastOfTies(map, key) ==
    IF map = <<>> THEN <<>>
    ELSE map[CHOOSE i \in 1..Len(map) :
                 /\ \A j \in 1..Len(map) : map[j][2][key] <= map[i][2][key]
                 /\ \A j \in (i + 1)..Len(map) : map[j][2][key] < map[i][2][key]]

\* topBy: the first entry, in insertion order, with the greatest value.
RECURSIVE topByFrom(_, _, _)
topByFrom(top, entries, key) ==
    IF entries = <<>> THEN top
    ELSE topByFrom(IF top = <<>> \/ Head(entries)[2][key] > top[2][key]
                   THEN Head(entries) ELSE top,
                   Tail(entries), key)

topBy(map, key) == topByFrom(<<>>, map, key)

ModelMP == <<"m", "@", "p">>
ModelDated == <<"m", "@", "2", "0", "2", "5">>
ModelBare == <<"m">>
ModelDatedWithProvider == <<"m", "@", "2", "5", "@", "p">>
ModelProviderDated == <<"m", "@", "p", "@", "2", "5">>
ModelNoProvider == <<"m", "@">>
ModelMixedSuffix == <<"m", "@", "2", "a">>
ProjectP == <<"p">>
ProjectQ == <<"q">>

AggSessionSet ==
    {Session("a1", ProjectP, At(2026, 2, 9, 10, 0), At(2026, 2, 9, 11, 0),
             <<4, 1, 2, 3, 1, 1>>, <<6, 4, 0, 0, 10>>, 8,
             << <<"bash", [calls |-> 2, errors |-> 1]>>,
                <<"read", [calls |-> 1, errors |-> 0]>> >>,
             << <<ModelMP, [calls |-> 2, tokens |-> 10, cost |-> 8]>> >>),
     Session("a2", ProjectP, At(2026, 2, 10, 10, 0), At(2026, 2, 10, 12, 0),
             <<2, 1, 1, 1, 0, 0>>, <<3, 2, 0, 0, 5>>, 1,
             << <<"bash", [calls |-> 1, errors |-> 0]>> >>,
             << <<ModelMP, [calls |-> 1, tokens |-> 5, cost |-> 1]>> >>),
     Session("a3", ProjectQ, At(2026, 2, 8, 10, 0), At(2026, 2, 8, 10, 30),
             <<3, 1, 2, 1, 0, 0>>, <<2, 1, 1, 0, 4>>, 1,
             << <<"read", [calls |-> 1, errors |-> 0]>> >>,
             << <<ModelDated, [calls |-> 1, tokens |-> 1, cost |-> 0]>>,
                <<ModelMP, [calls |-> 1, tokens |-> 3, cost |-> 1]>> >>),
     Session("a4", ProjectQ, At(2026, 2, 11, 9, 0), At(2026, 2, 11, 9, 0),
             <<1, 1, 0, 0, 0, 0>>, <<0, 0, 0, 0, 0>>, 0, <<>>, <<>>),
     Session("a5", ProjectP, At(2026, 2, 7, 10, 0), At(2026, 2, 12, 8, 0),
             <<3, 1, 1, 2, 1, 0>>, <<1, 1, 0, 0, 2>>, 2,
             << <<"bash", [calls |-> 2, errors |-> 0]>> >>,
             << <<ModelMP, [calls |-> 1, tokens |-> 2, cost |-> 2]>> >>),
     Session("a6", ProjectQ, At(2026, 2, 6, 10, 0), At(2026, 2, 6, 10, 0),
             <<6, 0, 6, 0, 0, 0>>, <<0, 0, 0, 0, 0>>, 0, <<>>,
             << <<ModelBare, [calls |-> 1, tokens |-> 0, cost |-> 0]>>,
                <<ModelDatedWithProvider, [calls |-> 1, tokens |-> 0, cost |-> 0]>>,
                <<ModelProviderDated, [calls |-> 1, tokens |-> 0, cost |-> 0]>>,
                <<ModelNoProvider, [calls |-> 1, tokens |-> 0, cost |-> 0]>>,
                <<ModelMixedSuffix, [calls |-> 1, tokens |-> 0, cost |-> 0]>>,
                <<ModelDated, [calls |-> 1, tokens |-> 0, cost |-> 0]>> >>)}

AggOptionSet ==
    {[period |-> "all", from |-> Undefined, to |-> Undefined, project |-> <<>>,
      excludeProjects |-> <<>>],
     [period |-> "week", from |-> Undefined, to |-> Undefined, project |-> <<>>,
      excludeProjects |-> <<>>],
     [period |-> "all", from |-> At(2026, 2, 9, 10, 0), to |-> Undefined,
      project |-> <<>>, excludeProjects |-> <<>>]}

\* One run of the command aggregates once.
Aggregate ==
    /\ comp = "aggregator"
    /\ aggOut = <<>>
    /\ \E opts \in AggOptionSet :
           aggOut' = [opts |-> opts, at |-> now,
                      result |-> aggregate(sessions, opts, now)]
    /\ UNCHANGED <<comp, parserVars, cacheVars, runVars, sessions, now, filterOut,
                   seriesOut, topOut, heap>>

\* The top items of the summary (formatters/table.ts 66-68).
Summarize ==
    /\ comp = "aggregator"
    /\ aggOut # <<>>
    /\ topOut = <<>>
    /\ topOut' = [topTool |-> topBy(aggOut.result.tools, "calls"),
                  topModel |-> topBy(aggOut.result.models, "calls"),
                  topProject |-> topBy(aggOut.result.projects, "sessions")]
    /\ UNCHANGED <<comp, parserVars, cacheVars, runVars, sessions, now, filterOut,
                   aggOut, seriesOut, heap>>

InitAggregator ==
    /\ comp = "aggregator"
    /\ ParserIdle
    /\ CacheIdle
    /\ RunsIdle
    /\ sessions \in SeqsUpTo(AggSessionSet, MaxAggSessions)
    /\ now = ClockA
    /\ filterOut = <<>>
    /\ aggOut = <<>>
    /\ seriesOut = <<>>
    /\ topOut = <<>>
    /\ heap = <<>>

NextAggregator == Aggregate \/ Summarize

SpecAggregator == InitAggregator /\ [][NextAggregator]_vars

(***************************************************************************)
(* loadAndAggregate (index.ts 80-85): filterSessions, then aggregate of    *)
(* what it kept, each reading the clock when it is called                  *)
(***************************************************************************)
\* The options of a period-based filter.
PeriodOptionSet ==
    [period : Periods, from : {Undefined}, to : {Undefined},
     project : {<<>>, <<"p", "I">>}, excludeProjects : {<<>>}]

\* const filtered = filterSessions(allSessions, filterOpts)
FilterLoaded ==
    /\ comp = "pipeline"
    /\ filterOut = <<>>
    /\ \E opts \in PeriodOptionSet :
           filterOut' = [opts |-> opts, at |-> now,
                         result |-> filterSessions(sessions, opts, now)]
    /\ UNCHANGED <<comp, parserVars, cacheVars, runVars, sessions, now, aggOut,
                   seriesOut, topOut, heap>>

\* return aggregate(filtered, filterOpts)
AggregateFiltered ==
    /\ comp = "pipeline"
    /\ filterOut # <<>>
    /\ aggOut = <<>>
    /\ aggOut' = [opts |-> filterOut.opts, at |-> now,
                  result |-> aggregate(filterOut.result, filterOut.opts, now)]
    /\ UNCHANGED <<comp, parserVars, cacheVars, runVars, sessions, now, filterOut,
                   seriesOut, topOut, heap>>

InitPipeline ==
    /\ comp = "pipeline"
    /\ ParserIdle
    /\ CacheIdle
    /\ RunsIdle
    /\ sessions \in SeqsUpTo(FilterSessionSet, MaxFilterSessions)
    /\ now = ClockA
    /\ filterOut = <<>>
    /\ aggOut = <<>>
    /\ seriesOut = <<>>
    /\ topOut = <<>>
    /\ heap = <<>>

NextPipeline == AdvanceClock \/ FilterLoaded \/ AggregateFiltered

SpecPipeline == InitPipeline /\ [][NextPipeline]_vars

(***************************************************************************)
(* Trend engine (trends.ts).  A bucket key, a template string in the code, *)
(* is the tuple of its parts; a label is the tuple of the fields it shows. *)
(* The names of tools are atoms and the names of models, providers and     *)
(* projects are sequences of characters, so the name "other" is written in *)
(* the form of the dimension it is used with.                              *)
(***************************************************************************)
MaxTrendSessions == 2

BucketSizes == {"hourly", "daily", "weekly", "monthly"}
TrendMetrics == {"tokens", "sessions", "tool-calls", "messages"}

\* Math.ceil(a / b) for a >= 0, b > 0.
CeilDiv(a, b) == (a + b - 1) \div b

\* The number of the ISO week, as bucketKey and bucketLabel compute it: the
\* date moved to the Thursday of its week, time of day kept, then the days
\* since January 1st of that Thursday's year.
weekNoOf(date) ==
    LET day == getUTCDay(date)
        dt == date + (4 - (IF day = 0 THEN 7 ELSE day)) * MinutesPerDay
        yearStart == DateUTC(getUTCFullYear(dt), 0, 1, 0, 0)
    IN  CeilDiv(dt - yearStart + MinutesPerDay, 7 * MinutesPerDay)

\* The year of the Thursday of the date's week.
weekYearOf(date) ==
    LET day == getUTCDay(date)
    IN  getUTCFullYear(date + (4 - (IF day = 0 THEN 7 ELSE day)) * MinutesPerDay)

bucketLabel(date, size) ==
    CASE size = "hourly" -> <<getUTCHours(date), getUTCMinutes(date)>>
      [] size = "daily" -> <<getUTCMonth(date), getUTCDate(date)>>
      [] size = "weekly" -> <<"W", weekNoOf(date)>>
      [] size = "monthly" -> <<getUTCMonth(date), getUTCFullYear(date)>>

bucketKey(date, size) ==
    LET y == getUTCFullYear(date)
        m == getUTCMonth(date)
        d == getUTCDate(date)
        h == getUTCHours(date)
    IN  CASE size = "hourly" -> <<y, m, d, h>>
          [] size = "daily" -> <<y, m, d>>
          [] size = "weekly" -> <<weekYearOf(date), "W", weekNoOf(date)>>
          [] size = "monthly" -> <<y, m>>

bucketStart(date, size) ==
    LET y == getUTCFullYear(date)
        m == getUTCMonth(date)
        d == getUTCDate(date)
        h == getUTCHours(date)
    IN  CASE size = "hourly" -> DateUTC(y, m, d, h, 0)
          [] size = "daily" -> DateUTC(y, m, d, 0, 0)
          [] size = "weekly" ->
                LET dt == DateUTC(y, m, d, 0, 0)
                    day == getUTCDay(dt)
                    diff == IF day = 0 THEN 6 ELSE day - 1
                IN  dt - diff * MinutesPerDay
          [] size = "monthly" -> DateUTC(y, m, 1, 0, 0)

metricValue(session, metric) ==
    CASE metric = "tokens" -> session.tokens.total
      [] metric = "sessions" -> 1
      [] metric = "tool-calls" -> session.toolCalls
      [] metric = "messages" -> session.messageCount

\* result.set(name, (result.get(name) ?? 0) + val) for each entry.
RECURSIVE MapAddAll(_, _)
MapAddAll(m, entries) ==
    IF entries = <<>> THEN m
    ELSE LET name == Head(entries)[1]
             old == IF MapHas(m, name) THEN MapGet(m, name) ELSE 0
         IN  MapAddAll(MapSet(m, name, old + Head(entries)[2]), Tail(entries))

\* result.set(name, val) for each entry.
RECURSIVE MapSetAll(_, _)
MapSetAll(m, entries) ==
    IF entries = <<>> THEN m
    ELSE MapSetAll(MapSet(m, Head(entries)[1], Head(entries)[2]), Tail(entries))

breakdownValues(session, metric, dimension) ==
    CASE dimension = "tool" ->
            MapSetAll(<<>>, [i \in 1..Len(session.tools) |->
                                <<session.tools[i][1], session.tools[i][2].calls>>])
      [] dimension = "model" ->
            MapSetAll(<<>>, [i \in 1..Len(session.models) |->
                                <<splitModelKey(session.models[i][1])[1],
                                  IF metric = "tokens" THEN session.models[i][2].tokens
                                  ELSE session.models[i][2].calls>>])
      [] dimension = "provider" ->
            MapAddAll(<<>>, [i \in 1..Len(session.models) |->
                                <<splitModelKey(session.models[i][1])[2],
                                  IF metric = "tokens" THEN session.models[i][2].tokens
                                  ELSE session.models[i][2].calls>>])
      [] dimension = "project" ->
            << <<session.project,
                 IF metric = "sessions" THEN 1 ELSE metricValue(session, metric)>> >>

\* The call without a breakdown.
NoBreakdown == [by |-> "none", top |-> 0]

\* The loop that groups the sessions into buckets.
RECURSIVE groupSessions(_, _, _, _, _)
groupSessions(buckets, ss, metric, size, breakdown) ==
    IF ss = <<>> THEN buckets
    ELSE LET session == Head(ss)
             key == bucketKey(session.startTime, size)
             bucket == IF MapHas(buckets, key) THEN MapGet(buckets, key)
                       ELSE [date |-> bucketStart(session.startTime, size),
                             value |-> 0, breakdown |-> <<>>]
             new == [date |-> bucket.date,
                     value |-> bucket.value + metricValue(session, metric),
                     breakdown |->
                         IF breakdown # NoBreakdown
                         THEN MapAddAll(bucket.breakdown,
                                        breakdownValues(session, metric, breakdown.by))
                         ELSE bucket.breakdown]
         IN  groupSessions(MapSet(buckets, key, new), Tail(ss), metric, size,
                           breakdown)

\* Array.prototype.sort is stable: an element goes behind those that do not
\* compare greater.
insertByDate(sorted, b) ==
    LET n == Cardinality({i \in 1..Len(sorted) : sorted[i].date <= b.date})
    IN  SubSeq(sorted, 1, n) \o <<b>> \o SubSeq(sorted, n + 1, Len(sorted))

RECURSIVE sortByDate(_, _)
sortByDate(sorted, bs) ==
    IF bs = <<>> THEN sorted ELSE sortByDate(insertByDate(sorted, Head(bs)), Tail(bs))

insertByTotal(sorted, e) ==
    LET n == Cardinality({i \in 1..Len(sorted) : sorted[i][2] >= e[2]})
    IN  SubSeq(sorted, 1, n) \o <<e>> \o SubSeq(sorted, n + 1, Len(sorted))

RECURSIVE sortByTotal(_, _)
sortByTotal(sorted, es) ==
    IF es = <<>> THEN sorted ELSE sortByTotal(insertByTotal(sorted, Head(es)), Tail(es))

\* The buckets in order of date, before the breakdowns are collapsed.
sortedBuckets(ss, metric, size, breakdown) ==
    LET buckets == groupSessions(<<>>, ss, metric, size, breakdown)
    IN  sortByDate(<<>>, [i \in 1..Len(buckets) |-> buckets[i][2]])

RECURSIVE globalTotalsOf(_, _)
globalTotalsOf(totals, sorted) ==
    IF sorted = <<>> THEN totals
    ELSE globalTotalsOf(MapAddAll(totals, Head(sorted).breakdown), Tail(sorted))

\* The set of the top keys.
topSetOf(sorted, top) ==
    LET ranked == sortByTotal(<<>>, globalTotalsOf(<<>>, sorted))
        kept == SubSeq(ranked, 1, IF top < Len(ranked) THEN top ELSE Len(ranked))
    IN  {kept[i][1] : i \in 1..Len(kept)}

\* The name "other" among the names of a dimension.
OtherName(dimension) ==
    IF dimension = "tool" THEN "other" ELSE <<"o", "t", "h", "e", "r">>

RECURSIVE otherSum(_, _)
otherSum(entries, topSet) ==
    IF entries = <<>> THEN 0
    ELSE (IF Head(entries)[1] \in topSet THEN 0 ELSE Head(entries)[2])
             + otherSum(Tail(entries), topSet)

\* The breakdown of one bucket with the keys outside the top set collapsed.
collapse(entries, topSet, dimension) ==
    LET collapsed == SelectSeq(entries, LAMBDA e : e[1] \in topSet)
        other == otherSum(entries, topSet)
    IN  IF other > 0 THEN MapSet(collapsed, OtherName(dimension), other)
        ELSE collapsed

\* The points of the sorted buckets; a point without a breakdown has the
\* empty map for its breakdown.
pointsOf(sorted, topSet, size, breakdown) ==
    [i \in 1..Len(sorted) |->
        [date |-> sorted[i].date,
         label |-> bucketLabel(sorted[i].date, size),
         value |-> sorted[i].value,
         breakdown |-> IF breakdown # NoBreakdown
                       THEN collapse(sorted[i].breakdown, topSet, breakdown.by)
                       ELSE <<>>]]

collapsedPoints(sorted, size, breakdown) ==
    pointsOf(sorted, topSetOf(sorted, breakdown.top), size, breakdown)

buildTimeSeries(ss, metric, size, breakdown) ==
    IF Len(ss) = 0 THEN <<>>
    ELSE collapsedPoints(sortedBuckets(ss, metric, size, breakdown), size, breakdown)

ModelMQ == <<"m", "@", "q">>
ProjectOther == <<"o", "t", "h", "e", "r">>

TrendSessionSet ==
    {Session("t1", ProjectP, At(2027, 1, 4, 0, 0), At(2027, 1, 4, 1, 0),
             <<4, 1, 2, 3, 1, 0>>, <<6, 4, 0, 0, 10>>, 1,
             << <<"bash", [calls |-> 2, errors |-> 0]>>,
                <<"read", [calls |-> 1, errors |-> 0]>> >>,
             << <<ModelMP, [calls |-> 2, tokens |-> 10, cost |-> 1]>> >>),
     Session("t2", ProjectQ, At(2027, 1, 5, 10, 0), At(2027, 1, 5, 10, 20),
             <<5, 1, 2, 3, 2, 0>>, <<3, 2, 0, 0, 5>>, 1,
             << <<"other", [calls |-> 2, errors |-> 0]>>,
                <<"bash", [calls |-> 1, errors |-> 0]>> >>,
             << <<ModelMP, [calls |-> 1, tokens |-> 3, cost |-> 1]>>,
                <<ModelMQ, [calls |-> 1, tokens |-> 2, cost |-> 0]>> >>),
     Session("t3", ProjectOther, At(2027, 1, 11, 0, 0), At(2027, 1, 11, 0, 0),
             <<2, 1, 1, 1, 0, 0>>, <<1, 1, 0, 0, 2>>, 0,
             << <<"read", [calls |-> 1, errors |-> 0]>> >>,
             << <<ModelDated, [calls |-> 1, tokens |-> 2, cost |-> 0]>> >>),
     Session("t4", ProjectP, At(2026, 2, 10, 10, 30), At(2026, 2, 11, 1, 0),
             <<3, 1, 1, 1, 1, 0>>, <<2, 2, 0, 0, 4>>, 1,
             << <<"bash", [calls |-> 1, errors |-> 0]>> >>,
             << <<ModelMQ, [calls |-> 1, tokens |-> 4, cost |-> 1]>> >>),
     Session("t5", ProjectQ, At(2026, 2, 10, 10, 45), At(2026, 2, 10, 10, 50),
             <<1, 1, 0, 0, 0, 0>>, <<0, 0, 0, 0, 0>>, 0, <<>>, <<>>),
     Session("t6", ProjectP, At(2026, 2, 14, 23, 0), At(2026, 2, 14, 23, 10),
             <<6, 2, 2, 4, 2, 0>>, <<4, 3, 0, 0, 7>>, 2,
             << <<"read", [calls |-> 4, errors |-> 0]>> >>,
             << <<ModelMP, [calls |-> 2, tokens |-> 7, cost |-> 2]>> >>)}

BreakdownOptionSet ==
    {NoBreakdown} \cup
    [by : {"tool"}, top : 0..2] \cup
    [by : {"model", "provider", "project"}, top : {1}]

\* One run of the command builds one series.
BuildSeries ==
    /\ comp = "trends"
    /\ seriesOut = <<>>
    /\ \E metric \in TrendMetrics, size \in BucketSizes,
          breakdown \in BreakdownOptionSet :
           seriesOut' = [metric |-> metric, size |-> size, breakdown |-> breakdown,
                         points |-> buildTimeSeries(sessions, metric, size, breakdown)]
    /\ UNCHANGED <<comp, parserVars, cacheVars, runVars, sessions, now, filterOut,
                   aggOut, topOut, heap>>

InitTrends ==
    /\ comp = "trends"
    /\ ParserIdle
    /\ CacheIdle
    /\ RunsIdle
    /\ sessions \in SeqsUpTo(TrendSessionSet, MaxTrendSessions)
    /\ now = ClockA
    /\ filterOut = <<>>
    /\ aggOut = <<>>
    /\ seriesOut = <<>>
    /\ topOut = <<>>
    /\ heap = <<>>

NextTrends == BuildSeries

SpecTrends == InitTrends /\ [][NextTrends]_vars

(***************************************************************************)
(* The session directory names                                             *)
(***************************************************************************)
MaxDirLen == 7

\* Names of session directories: with and without the -- wrapping, with
\* hyphens inside.
DirNames == SeqsUpTo({"-", "a", "b"}, MaxDirLen)

\* The working directory and project of a session whose header has no cwd
\* (parser.ts 89-90), from the name of the directory of its file.  One
\* file is parsed once.
DecodeDir ==
    /\ comp = "dirs"
    /\ decoded = <<>>
    /\ \E dirName \in DirNames :
          decoded' = [dirName |-> dirName,
                      cwd |-> decodeDirName(dirName),
                      project |-> cwdToProject(decodeDirName(dirName))]
    /\ UNCHANGED <<comp, lines, result, cacheVars, runVars, pipeVars>>

InitDirs ==
    /\ comp = "dirs"
    /\ ParserIdle
    /\ CacheIdle
    /\ RunsIdle
    /\ PipeIdle

NextDirs == DecodeDir

SpecDirs == InitDirs /\ [][NextDirs]_vars

(***************************************************************************)
(* The objects of the sessions                                             *)
(*                                                                         *)
(* A SessionStats is an object that refers to other objects: its tokens,   *)
(* its two Dates, the entries of its tools and models Maps.  The heap maps *)
(* the address of each object to its fields; a call allocates the objects  *)
(* it creates and writes through the references it holds.                  *)
(***************************************************************************)
MaxCalls == 3
MaxHeapSessions == 2

HeapSessionSet == {s \in AggSessionSet : s.id \in {"a1", "a2", "a3"}}

\* An address: the owner (a session or a call), its number, the part and,
\* for the entry of a Map, the key.
Addr(owner, index, part, name) == <<owner, index, part, name>>

NoName == <<>>

Store(cells, addr, val) ==
    [a \in DOMAIN cells \cup {addr} |-> IF a = addr THEN val ELSE cells[a]]

AddrsOfSession(s, i) ==
    {Addr("session", i, part, NoName) :
        part \in {"stats", "tokens", "startTime", "endTime"}}
        \cup {Addr("session", i, "tool", <<s.tools[k][1]>>) : k \in 1..Len(s.tools)}
        \cup {Addr("session", i, "model", s.models[k][1]) : k \in 1..Len(s.models)}

\* The fields of an object of a session; the Maps hold their keys, each key
\* referring to the entry at its address.
CellOfSession(s, part, name) ==
    CASE part = "stats" ->
            [s EXCEPT !.tokens = "tokens", !.startTime = "startTime",
                      !.endTime = "endTime",
                      !.tools = [k \in 1..Len(s.tools) |-> s.tools[k][1]],
                      !.models = [k \in 1..Len(s.models) |-> s.models[k][1]]]
      [] part = "tokens" -> s.tokens
      [] part = "startTime" -> [time |-> s.startTime]
      [] part = "endTime" -> [time |-> s.endTime]
      [] part = "tool" -> MapGet(s.tools, name[1])
      [] part = "model" -> MapGet(s.models, name)

SessionObjects(ss) ==
    [a \in UNION {AddrsOfSession(ss[i], i) : i \in 1..Len(ss)} |->
        CellOfSession(ss[a[2]], a[3], a[4])]

\* The SessionStats read through the references of session i.
SessionAt(cells, i) ==
    LET s == cells[Addr("session", i, "stats", NoName)]
    IN  [s EXCEPT
            !.tokens = cells[Addr("session", i, "tokens", NoName)],
            !.startTime = cells[Addr("session", i, "startTime", NoName)].time,
            !.endTime = cells[Addr("session", i, "endTime", NoName)].time,
            !.tools = [k \in 1..Len(s.tools) |->
                          <<s.tools[k],
                            [calls |-> cells[Addr("session", i, "tool",
                                                  <<s.tools[k]>>)].calls,
                             errors |-> cells[Addr("session", i, "tool",
                                                   <<s.tools[k]>>)].errors]>>],
            !.models = [k \in 1..Len(s.models) |->
                           <<s.models[k],
                             cells[Addr("session", i, "model", s.models[k])]>>]]

SessionsAt(cells, n) == [i \in 1..n |-> SessionAt(cells, i)]

\* aggregate, call r: the stats object and its totalTokens object.
AggStats(r) == Addr("aggregate", r, "stats", NoName)
AggTokens(r) == Addr("aggregate", r, "totalTokens", NoName)

\* A variant that keeps the session's own entry as the ToolStats of the
\* aggregate instead of a new object.
NewToolStats_SessionEntry(r, i, toolName) == Addr("session", i, "tool", <<toolName>>)

\* The ToolStats object created for a tool seen for the first time
\* (aggregator.ts 63-69).
NewToolStats(r, i, toolName) == Addr("aggregate", r, "tool", <<toolName>>)

\* The body of the loop over session.tools (aggregator.ts 54-71).
HeapAggregateTool(cells, r, i, toolName) ==
    LET toolData == cells[Addr("session", i, "tool", <<toolName>>)]
        endTime == Addr("session", i, "endTime", NoName)
        id == cells[Addr("session", i, "stats", NoName)].id
    IN  IF MapHas(cells[AggStats(r)].tools, toolName)
        THEN LET existing == MapGet(cells[AggStats(r)].tools, toolName)
             IN  Store(cells, existing,
                       [cells[existing] EXCEPT
                           !.calls = @ + toolData.calls,
                           !.errors = @ + toolData.errors,
                           !.sessionIds = @ \cup {id},
                           !.lastUsed = IF cells[endTime].time > cells[@].time
                                        THEN endTime ELSE @])
        ELSE Store(Store(cells, NewToolStats(r, i, toolName),
                         [name |-> toolName, calls |-> toolData.calls,
                          errors |-> toolData.errors, sessionIds |-> {id},
                          lastUsed |-> endTime]),
                   AggStats(r),
                   [cells[AggStats(r)] EXCEPT
                       !.tools = MapSet(@, toolName, NewToolStats(r, i, toolName))])

RECURSIVE HeapAggregateTools(_, _, _, _)
HeapAggregateTools(cells, r, i, names) ==
    IF names = <<>> THEN cells
    ELSE HeapAggregateTools(HeapAggregateTool(cells, r, i, Head(names)),
                            r, i, Tail(names))

\* The body of the loop over session.models (aggregator.ts 75-91).
HeapAggregateModel(cells, r, i, modelKey) ==
    LET modelData == cells[Addr("session", i, "model", modelKey)]
        entry == Addr("aggregate", r, "model", modelKey)
    IN  IF MapHas(cells[AggStats(r)].models, modelKey)
        THEN LET existing == MapGet(cells[AggStats(r)].models, modelKey)
             IN  Store(cells, existing,
                       [cells[existing] EXCEPT
                           !.calls = @ + modelData.calls,
                           !.tokens.total = @ + modelData.tokens,
                           !.cost = FloatAdd(@, modelData.cost)])
        ELSE Store(Store(cells, entry,
                         [model |-> splitModelKey(modelKey)[1],
                          provider |-> splitModelKey(modelKey)[2],
                          calls |-> modelData.calls,
                          tokens |-> [input |-> 0, output |-> 0, cacheRead |-> 0,
                                      cacheWrite |-> 0, total |-> modelData.tokens],
                          cost |-> modelData.cost]),
                   AggStats(r),
                   [cells[AggStats(r)] EXCEPT !.models = MapSet(@, modelKey, entry)])

RECURSIVE HeapAggregateModels(_, _, _, _)
HeapAggregateModels(cells, r, i, keys) ==
    IF keys = <<>> THEN cells
    ELSE HeapAggregateModels(HeapAggregateModel(cells, r, i, Head(keys)),
                             r, i, Tail(keys))

\* The project entry (aggregator.ts 93-104).
HeapAggregateProject(cells, r, session, tokens) ==
    LET entry == Addr("aggregate", r, "project", session.project)
        projEntry == IF MapHas(cells[AggStats(r)].projects, session.project)
                     THEN cells[MapGet(cells[AggStats(r)].projects, session.project)]
                     ELSE [sessions |-> 0, messages |-> 0, toolCalls |-> 0,
                           tokens |-> 0]
    IN  Store(Store(cells, entry,
                    [sessions |-> projEntry.sessions + 1,
                     messages |-> projEntry.messages + session.messageCount,
                     toolCalls |-> projEntry.toolCalls + session.toolCalls,
                     tokens |-> projEntry.tokens + tokens.total]),
              AggStats(r),
              [cells[AggStats(r)] EXCEPT
                  !.projects = MapSet(@, session.project, entry)])

\* The totals (aggregator.ts 39-50).
HeapAggregateTotals(cells, r, session, tokens) ==
    Store(Store(cells, AggStats(r),
                [cells[AggStats(r)] EXCEPT
                    !.totalMessages = @ + session.messageCount,
                    !.totalUserMessages = @ + session.userMessages,
                    !.totalAssistantMessages = @ + session.assistantMessages,
                    !.totalToolCalls = @ + session.toolCalls,
                    !.totalToolErrors = @ + session.toolErrors,
                    !.totalCost = FloatAdd(@, session.cost)]),
          AggTokens(r),
          [input |-> cells[AggTokens(r)].input + tokens.input,
           output |-> cells[AggTokens(r)].output + tokens.output,
           cacheRead |-> cells[AggTokens(r)].cacheRead + tokens.cacheRead,
           cacheWrite |-> cells[AggTokens(r)].cacheWrite + tokens.cacheWrite,
           total |-> cells[AggTokens(r)].total + tokens.total])

\* One iteration of the loop over the sessions.
HeapAggregateSession(cells, r, i, session, tokens) ==
    HeapAggregateProject(
        HeapAggregateModels(
            HeapAggregateTools(HeapAggregateTotals(cells, r, session, tokens),
                               r, i, session.tools),
            r, i, session.models),
        r, session, tokens)

RECURSIVE HeapAggregateSessions(_, _, _, _)
HeapAggregateSessions(cells, r, i, n) ==
    IF i > n THEN cells
    ELSE HeapAggregateSessions(
             HeapAggregateSession(cells, r, i,
                                  cells[Addr("session", i, "stats", NoName)],
                                  cells[Addr("session", i, "tokens", NoName)]),
             r, i + 1, n)

\* aggregate over the n sessions: the stats object is created (its sessions
\* field refers to the array it was given), then filled.
HeapAggregate(cells, r, n) ==
    HeapAggregateSessions(
        Store(Store(cells, AggStats(r),
                    [sessions |-> "array", totalSessions |-> n,
                     totalMessages |-> 0, totalUserMessages |-> 0,
                     totalAssistantMessages |-> 0, totalToolCalls |-> 0,
                     totalToolErrors |-> 0, totalTokens |-> "totalTokens",
                     totalCost |-> 0, tools |-> <<>>, models |-> <<>>,
                     projects |-> <<>>]),
              AggTokens(r),
              [input |-> 0, output |-> 0, cacheRead |-> 0, cacheWrite |-> 0,
               total |-> 0]),
        r, 1, n)

\* The weekly bucketKey (trends.ts 75-76): dt is a new Date copied from the
\* session's startTime, then moved to the Thursday of its week.
HeapWeekDate(cells, k, i) ==
    LET start == cells[Addr("session", i, "startTime", NoName)].time
        dt == Addr("series", k, "dt",
                   <<cells[Addr("session", i, "stats", NoName)].id>>)
        day == IF getUTCDay(start) = 0 THEN 7 ELSE getUTCDay(start)
    IN  Store(Store(cells, dt, [time |-> start]),
              dt, [time |-> start + (4 - day) * MinutesPerDay])

RECURSIVE HeapWeekDates(_, _, _, _)
HeapWeekDates(cells, k, i, n) ==
    IF i > n THEN cells
    ELSE HeapWeekDates(HeapWeekDate(cells, k, i), k, i + 1, n)

\* buildTimeSeries: the buckets, their Dates and breakdown Maps and the
\* points are new objects holding numbers.
HeapSeries(cells, k, n, metric, size, breakdown) ==
    Store(IF size = "weekly" THEN HeapWeekDates(cells, k, 1, n) ELSE cells,
          Addr("series", k, "points", NoName),
          buildTimeSeries(SessionsAt(cells, n), metric, size, breakdown))

\* Cache.set: serialize builds a new object from the fields of the stats
\* (cache.ts 73-81), which JSON.stringify reads.
HeapSet(cells, k, i, mtime) ==
    Store(cells, Addr("set", k, "entry", NoName),
          CacheEntry(mtime, serialize(SessionAt(cells, i))))

\* filterSessions: a new array of the sessions kept.
HeapFilter(cells, k, n, opts, clock) ==
    Store(cells, Addr("filter", k, "array", NoName),
          SelectSeq([i \in 1..n |-> i],
                    LAMBDA i : keepSession(SessionAt(cells, i), opts,
                                           rangeOf(opts, clock))))

\* The objects of the aggregate of call r.
ObjectsOfAggregate(cells, r) ==
    [a \in {b \in DOMAIN cells : b[1] = "aggregate" /\ b[2] = r} |-> cells[a]]

AfterCall(cells, kind) ==
    [cells |-> cells, log |-> Append(heap.log, kind),
     first |-> IF kind = "aggregate" /\ heap.first = <<>>
               THEN ObjectsOfAggregate(cells, Len(heap.log) + 1)
               ELSE heap.first]

HeapFilterCall ==
    /\ comp = "heap"
    /\ Len(heap.log) < MaxCalls
    /\ \E opts \in AggOptionSet :
          heap' = AfterCall(HeapFilter(heap.cells, Len(heap.log) + 1,
                                       Len(sessions), opts, now), "filter")
    /\ UNCHANGED <<comp, parserVars, cacheVars, runVars, sessions, now, filterOut,
                   aggOut, seriesOut, topOut>>

HeapAggregateCall ==
    /\ comp = "heap"
    /\ Len(heap.log) < MaxCalls
    /\ heap' = AfterCall(HeapAggregate(heap.cells, Len(heap.log) + 1,
                                       Len(sessions)), "aggregate")
    /\ UNCHANGED <<comp, parserVars, cacheVars, runVars, sessions, now, filterOut,
                   aggOut, seriesOut, topOut>>

HeapSeriesCall ==
    /\ comp = "heap"
    /\ Len(heap.log) < MaxCalls
    /\ \E size \in {"daily", "weekly"},
          breakdown \in {NoBreakdown, [by |-> "tool", top |-> 1]} :
          heap' = AfterCall(HeapSeries(heap.cells, Len(heap.log) + 1,
                                       Len(sessions), "tool-calls", size,
                                       breakdown), "series")
    /\ UNCHANGED <<comp, parserVars, cacheVars, runVars, sessions, now, filterOut,
                   aggOut, seriesOut, topOut>>

HeapSetCall ==
    /\ comp = "heap"
    /\ Len(heap.log) < MaxCalls
    /\ \E i \in 1..Len(sessions) :
          heap' = AfterCall(HeapSet(heap.cells, Len(heap.log) + 1, i, 1), "set")
    /\ UNCHANGED <<comp, parserVars, cacheVars, runVars, sessions, now, filterOut,
                   aggOut, seriesOut, topOut>>

InitHeap ==
    /\ comp = "heap"
    /\ ParserIdle
    /\ CacheIdle
    /\ RunsIdle
    /\ sessions \in SeqsUpTo(HeapSessionSet, MaxHeapSessions)
    /\ now = ClockA
    /\ filterOut = <<>>
    /\ aggOut = <<>>
    /\ seriesOut = <<>>
    /\ topOut = <<>>
    /\ heap = [cells |-> SessionObjects(sessions), log |-> <<>>, first |-> <<>>]

NextHeap == HeapFilterCall \/ HeapAggregateCall \/ HeapSeriesCall \/ HeapSetCall

SpecHeap == InitHeap /\ [][NextHeap]_vars

(***************************************************************************)
(* Claims about the parser                                                 *)
(***************************************************************************)
\* The messages of a file that the loop of parseSessionStats counts.
CountedMessages(ls) ==
    SelectSeq(parseSessionFile(ls), LAMBDA e : e.k = "message" /\ e.role # "")

\* C1: in every SessionStats the parser returns, messageCount equals
\* userMessages + assistantMessages + toolResults, so that a bashExecution
\* message (or one of any other role) adds to no counter at all.
C1_MessageCountIsSumOfRoles ==
    result.kind = "stats" =>
        result.stats.messageCount =
            result.stats.userMessages + result.stats.assistantMessages
                + result.stats.toolResults

\* The lines C10 calls skipped: empty after trimming, rejected by JSON.parse,
\* or JSON that is not an entry object.
IsSkippedLine(l) == l.k \in {"blank", "malformed", "null", "scalar"}

WithoutSkippedLines(ls) == SelectSeq(ls, LAMBDA l : ~IsSkippedLine(l))

\* C10: parsing a file never raises, and its result is the result of parsing
\* the same file with the empty, malformed and non-entry lines removed.
C10_BadLinesAreSkipped ==
    result # NotParsed =>
        /\ result # Thrown
        /\ result = parseSessionStats(WithoutSkippedLines(lines))

(***************************************************************************)
(* Claims about the cache                                                  *)
(***************************************************************************)
AllWritten == setOutcome = <<>> \/ setOutcome.allWritten

\* What C2 expects of get(path, mtime) given the latest set of each path.
ExpectedGet(path, mtime) ==
    IF path \in DOMAIN lastSet /\ lastSet[path].mtime = mtime
    THEN [kind |-> "stats", stats |-> lastSet[path].stats]
    ELSE CacheMiss

\* C2: as long as every write of Cache.set succeeded, Cache.get(path, m)
\* returns stats equal to those of the latest set for that path when that set
\* gave the mtime m, and null otherwise; sets for other paths do not matter.
C2_GetReturnsLatestSet ==
    [][(AllWritten /\ got' # <<>> /\ UNCHANGED <<store, lastSet, setOutcome>>)
          => got'.value = ExpectedGet(got'.path, got'.mtime)]_vars

\* A get that returned the stats (with two tools and a model) of the latest
\* set for its path, after a set for the other path came in between.
C2_Witness ==
    /\ AllWritten
    /\ got # <<>>
    /\ got.value.kind = "stats"
    /\ got.value = ExpectedGet(got.path, got.mtime)
    /\ Len(got.value.stats.tools) = 2
    /\ Len(got.value.stats.models) >= 1
    /\ \E p \in DOMAIN lastSet : p # got.path /\ lastSet[p].stats # got.value.stats

\* C3: a run of parseAllSessions with the cache enabled returns the list a
\* run with the cache bypassed returns on the same files, whatever the
\* record files hold (nothing, a record of another mtime, a damaged record).
C3_CacheNeverChangesOutput ==
    runOut # <<>> => runOut.results = parseAllSessions(files)

(***************************************************************************)
(* Claims about the filter                                                 *)
(***************************************************************************)
\* One letter, whatever its case.
SameLetter(a, b) ==
    \/ a = b
    \/ \E j \in 1..Len(UpperCase) :
           {a, b} = {UpperCase[j], LowerCase[j]}

\* s contains f, ignoring case.
ContainsIgnoringCase(s, f) ==
    \E k \in 0..Len(s) :
        /\ k + Len(f) <= Len(s)
        /\ \A j \in 1..Len(f) : SameLetter(s[k + j], f[j])

\* The range the claim gives for a call.
C6_Range(opts, clock) ==
    IF opts.from = Undefined /\ opts.to = Undefined
    THEN [from |-> periodToRange(opts.period, clock).from,
          to |-> periodToRange(opts.period, clock).to]
    ELSE [from |-> IF opts.from = Undefined THEN 0 ELSE opts.from,
          to |-> IF opts.to = Undefined THEN clock ELSE opts.to]

C6_Passes(s, opts, clock) ==
    /\ C6_Range(opts, clock).from <= s.startTime
    /\ s.startTime <= C6_Range(opts, clock).to
    /\ opts.project = <<>> \/ ContainsIgnoringCase(s.project, opts.project)
    /\ ~\E e \in Range(opts.excludeProjects) : ContainsIgnoringCase(s.project, e)

\* C6: filterSessions returns exactly the input sessions, in input order,
\* whose startTime lies in [from, to] (both inclusive), whose project
\* contains the project filter ignoring case (when one is given) and contains
\* none of the excludeProjects entries ignoring case; [from, to] is
\* [opts.from or the epoch, opts.to or now] as soon as one explicit bound is
\* given, and the period's range otherwise.
C6_FilterSessionsExact ==
    filterOut # <<>> =>
        filterOut.result =
            SelectSeq(sessions, LAMBDA s : C6_Passes(s, filterOut.opts, filterOut.at))

\* A call with an explicit bound and both project filters that keeps one
\* session (on the inclusive lower bound) and drops another.
C6_Witness ==
    /\ filterOut # <<>>
    /\ filterOut.opts.from # Undefined
    /\ filterOut.opts.to = Undefined
    /\ filterOut.opts.project # <<>>
    /\ filterOut.opts.excludeProjects # <<>>
    /\ Len(sessions) = 2
    /\ Len(filterOut.result) = 1
    /\ filterOut.result[1].startTime >= filterOut.opts.from

(***************************************************************************)
(* Claims about the aggregator                                             *)
(***************************************************************************)
\* The permutations of a list.
ListPermutations(ss) ==
    {[i \in 1..Len(ss) |-> ss[p[i]]] :
        p \in {q \in [1..Len(ss) -> 1..Len(ss)] :
                  \A i, j \in 1..Len(ss) : q[i] = q[j] => i = j}}

\* The integer totals of an aggregate.
IntegerTotals(a) ==
    <<a.totalSessions, a.totalMessages, a.totalUserMessages,
      a.totalAssistantMessages, a.totalToolCalls, a.totalToolErrors,
      a.totalTokens>>

\* The models map as a set of key/value pairs, without the costs.
ModelPairsWithoutCost(a) ==
    {<<a.models[i][1], [a.models[i][2] EXCEPT !.cost = 0]>> :
        i \in 1..Len(a.models)}

\* The sum of the costs of a list as real numbers.
RECURSIVE ExactCost(_)
ExactCost(ss) == IF ss = <<>> THEN 0 ELSE Head(ss).cost + ExactCost(Tail(ss))

\* Every floating-point addition over the costs of the list is exact.
CostsAddExactly(ss) == ExactCost(ss) <= MantissaLimit

\* What the claim compares: the numeric totals and the three maps as sets.
Comparable(a) ==
    [totals |-> IntegerTotals(a), cost |-> a.totalCost,
     tools |-> MapPairs(a.tools), models |-> MapPairs(a.models),
     projects |-> MapPairs(a.projects)]

ComparableWithoutCost(a) ==
    [totals |-> IntegerTotals(a), tools |-> MapPairs(a.tools),
     models |-> ModelPairsWithoutCost(a), projects |-> MapPairs(a.projects)]

\* C4 as stated: for every permutation of the session list, aggregate gives
\* the same numeric totals (the total cost among them) and the same tools,
\* models (per-model cost among them) and projects maps as sets of pairs.
C4_AggregateOrderIndependent ==
    aggOut # <<>> =>
        \A p \in ListPermutations(sessions) :
            Comparable(aggregate(p, aggOut.opts, aggOut.at))
                = Comparable(aggOut.result)

\* C4, amended: for every permutation of the session list, aggregate gives
\* the same integer totals and the same tools, models and projects maps as
\* sets of pairs apart from the costs; the total cost and the per-model costs
\* are floating-point sums taken in input order, the same for every
\* permutation when the additions are exact.
C4_AggregateOrderIndependentButCost ==
    aggOut # <<>> =>
        \A p \in ListPermutations(sessions) :
            /\ ComparableWithoutCost(aggregate(p, aggOut.opts, aggOut.at))
                   = ComparableWithoutCost(aggOut.result)
            /\ CostsAddExactly(sessions) =>
                   Comparable(aggregate(p, aggOut.opts, aggOut.at))
                       = Comparable(aggOut.result)

\* Three different sessions, two of them sharing a tool, over two projects,
\* aggregated, whose costs add exactly.
C4_Witness ==
    /\ aggOut # <<>>
    /\ Len(sessions) = 3
    /\ \A i, j \in 1..3 : i # j => sessions[i] # sessions[j]
    /\ CostsAddExactly(sessions)
    /\ ExactCost(sessions) > 0
    /\ \E i \in 1..Len(aggOut.result.tools) :
           Cardinality(aggOut.result.tools[i][2].sessionIds) = 2
    /\ Len(aggOut.result.projects) = 2

\* The entries of an aggregate, an absent key counting as 0.
ToolOf(a, name) ==
    IF MapHas(a.tools, name) THEN MapGet(a.tools, name)
    ELSE [name |-> name, calls |-> 0, errors |-> 0, sessionIds |-> {},
          lastUsed |-> 0]

ModelOf(a, key) ==
    IF MapHas(a.models, key)
    THEN [calls |-> MapGet(a.models, key).calls,
          tokens |-> MapGet(a.models, key).tokens.total,
          cost |-> MapGet(a.models, key).cost]
    ELSE [calls |-> 0, tokens |-> 0, cost |-> 0]

ProjectOf(a, name) ==
    IF MapHas(a.projects, name) THEN MapGet(a.projects, name)
    ELSE [sessions |-> 0, messages |-> 0, toolCalls |-> 0, tokens |-> 0]

\* whole is the sum of partA and partB in every integer total and counter,
\* with the key sets, sessionIds and lastUsed as the claim gives them.
AdditiveWithoutCost(whole, partA, partB) ==
    /\ whole.totalSessions = partA.totalSessions + partB.totalSessions
    /\ whole.totalMessages = partA.totalMessages + partB.totalMessages
    /\ whole.totalUserMessages = partA.totalUserMessages + partB.totalUserMessages
    /\ whole.totalAssistantMessages =
           partA.totalAssistantMessages + partB.totalAssistantMessages
    /\ whole.totalToolCalls = partA.totalToolCalls + partB.totalToolCalls
    /\ whole.totalToolErrors = partA.totalToolErrors + partB.totalToolErrors
    /\ \A f \in {"input", "output", "cacheRead", "cacheWrite", "total"} :
           whole.totalTokens[f] = partA.totalTokens[f] + partB.totalTokens[f]
    /\ MapKeys(whole.tools) = MapKeys(partA.tools) \cup MapKeys(partB.tools)
    /\ MapKeys(whole.models) = MapKeys(partA.models) \cup MapKeys(partB.models)
    /\ MapKeys(whole.projects) = MapKeys(partA.projects) \cup MapKeys(partB.projects)
    /\ \A n \in MapKeys(whole.tools) :
           /\ ToolOf(whole, n).calls = ToolOf(partA, n).calls + ToolOf(partB, n).calls
           /\ ToolOf(whole, n).errors = ToolOf(partA, n).errors + ToolOf(partB, n).errors
           /\ ToolOf(whole, n).sessionIds =
                  ToolOf(partA, n).sessionIds \cup ToolOf(partB, n).sessionIds
           /\ ToolOf(whole, n).lastUsed =
                  Max2(ToolOf(partA, n).lastUsed, ToolOf(partB, n).lastUsed)
    /\ \A k \in MapKeys(whole.models) :
           /\ ModelOf(whole, k).calls = ModelOf(partA, k).calls + ModelOf(partB, k).calls
           /\ ModelOf(whole, k).tokens =
                  ModelOf(partA, k).tokens + ModelOf(partB, k).tokens
    /\ \A n \in MapKeys(whole.projects) :
           \A f \in {"sessions", "messages", "toolCalls", "tokens"} :
               ProjectOf(whole, n)[f] = ProjectOf(partA, n)[f] + ProjectOf(partB, n)[f]

\* whole is the sum of partA and partB in the total cost and per-model cost.
AdditiveInCost(whole, partA, partB) ==
    /\ whole.totalCost = FloatAdd(partA.totalCost, partB.totalCost)
    /\ \A k \in MapKeys(whole.models) :
           ModelOf(whole, k).cost =
               FloatAdd(ModelOf(partA, k).cost, ModelOf(partB, k).cost)

\* No total of part exceeds that of whole, and no key of part is missing.
NeverDecreases(whole, part) ==
    /\ \A i \in 1..6 : IntegerTotals(part)[i] <= IntegerTotals(whole)[i]
    /\ \A f \in {"input", "output", "cacheRead", "cacheWrite", "total"} :
           part.totalTokens[f] <= whole.totalTokens[f]
    /\ part.totalCost <= whole.totalCost
    /\ MapKeys(part.tools) \subseteq MapKeys(whole.tools)
    /\ MapKeys(part.models) \subseteq MapKeys(whole.models)
    /\ MapKeys(part.projects) \subseteq MapKeys(whole.projects)
    /\ \A k \in MapKeys(part.models) : ModelOf(part, k).cost <= ModelOf(whole, k).cost

\* The aggregate of the first k sessions and of the remaining ones.
AggregateOfPrefix(k) ==
    aggregate(SubSeq(sessions, 1, k), aggOut.opts, aggOut.at)

AggregateOfSuffix(k) ==
    aggregate(SubSeq(sessions, k + 1, Len(sessions)), aggOut.opts, aggOut.at)

\* C5 as stated: for every split of the session list into A ++ B, every
\* numeric total (the total cost among them) and every per-tool, per-model
\* (cost among them) and per-project counter of aggregate(A ++ B) is the sum
\* of those of aggregate(A) and aggregate(B), each key set is the union, each
\* tool's sessionIds the union and its lastUsed the maximum; appending never
\* decreases a total and never removes a key.
C5_AggregateAdditive ==
    aggOut # <<>> =>
        \A k \in 0..Len(sessions) :
            /\ AdditiveWithoutCost(aggOut.result, AggregateOfPrefix(k),
                                   AggregateOfSuffix(k))
            /\ AdditiveInCost(aggOut.result, AggregateOfPrefix(k), AggregateOfSuffix(k))
            /\ NeverDecreases(aggOut.result, AggregateOfPrefix(k))

\* C5, amended: for every split of the session list into A ++ B, every
\* integer total and counter of aggregate(A ++ B) is the sum of those of
\* aggregate(A) and aggregate(B), each key set is the union, each tool's
\* sessionIds the union and its lastUsed the maximum; the total cost and the
\* per-model costs are floating-point sums taken in input order, equal to the
\* sum of the two parts' costs when the additions are exact; appending
\* sessions never decreases a total, the costs included, and never removes a
\* key.
C5_AggregateAdditiveButCost ==
    aggOut # <<>> =>
        \A k \in 0..Len(sessions) :
            /\ AdditiveWithoutCost(aggOut.result, AggregateOfPrefix(k),
                                   AggregateOfSuffix(k))
            /\ CostsAddExactly(sessions) =>
                   AdditiveInCost(aggOut.result, AggregateOfPrefix(k),
                                  AggregateOfSuffix(k))
            /\ NeverDecreases(aggOut.result, AggregateOfPrefix(k))
            /\ NeverDecreases(aggOut.result, AggregateOfSuffix(k))

\* A list of three sessions, two of them on one project and one tool,
\* aggregated: it splits into non-empty parts with a common key.
C5_Witness ==
    /\ aggOut # <<>>
    /\ Len(sessions) = 3
    /\ sessions[1].project = sessions[3].project
    /\ sessions[1].id # sessions[3].id
    /\ sessions[2].project # sessions[1].project
    /\ MapKeys(sessions[1].tools) \cap MapKeys(sessions[3].tools) # {}
    /\ aggOut.result.totalCost > 0
    /\ CostsAddExactly(sessions)

(***************************************************************************)
(* Claims about the trend engine                                           *)
(***************************************************************************)
\* The start of the UTC calendar interval (hour, day, ISO week starting on
\* Monday, month) that contains the instant t.
IntervalStart(t, size) ==
    CASE size = "hourly" -> t - (t % 60)
      [] size = "daily" -> t - (t % MinutesPerDay)
      [] size = "weekly" ->
            (DayOf(t) - ((getUTCDay(t) + 6) % 7)) * MinutesPerDay
      [] size = "monthly" -> DateUTC(getUTCFullYear(t), getUTCMonth(t), 1, 0, 0)

RECURSIVE SumOver(_, _)
SumOver(S, f) ==
    IF S = {} THEN 0
    ELSE LET x == CHOOSE y \in S : TRUE IN f[x] + SumOver(S \ {x}, f)

\* The values of the sessions under the metric of the latest call.
SessionValues ==
    [i \in 1..Len(sessions) |-> metricValue(sessions[i], seriesOut.metric)]

\* C8: buildTimeSeries adds each session's metric value in full to exactly
\* one point, the one of the bucket whose UTC calendar interval contains the
\* session's startTime: the sessions can be assigned to the points so that
\* each goes to a point that starts its interval and each point's value is
\* the sum over the sessions it received; so the point values add up to the
\* metric over all sessions and no point starts after a session counted in
\* it.
C8_EachSessionInItsBucket ==
    seriesOut # <<>> =>
        LET points == seriesOut.points
        IN  /\ \E to \in [1..Len(sessions) -> 1..Len(points)] :
                   /\ \A i \in 1..Len(sessions) :
                          /\ points[to[i]].date =
                                 IntervalStart(sessions[i].startTime, seriesOut.size)
                          /\ points[to[i]].date <= sessions[i].startTime
                   /\ \A j \in 1..Len(points) :
                          points[j].value =
                              SumOver({i \in 1..Len(sessions) : to[i] = j},
                                      SessionValues)
            /\ SumOver(1..Len(points), [j \in 1..Len(points) |-> points[j].value])
                   = SumOver(1..Len(sessions), SessionValues)

\* C9: the points come in strictly ascending order of bucket start, one for
\* each bucket that contains the startTime of at least one session and none
\* for any other bucket; an empty session list gives an empty series.
C9_PointsAscendingOnePerBucket ==
    seriesOut # <<>> =>
        LET points == seriesOut.points
        IN  /\ \A j \in 1..(Len(points) - 1) : points[j].date < points[j + 1].date
            /\ {points[j].date : j \in 1..Len(points)} =
                   {IntervalStart(sessions[i].startTime, seriesOut.size) :
                       i \in 1..Len(sessions)}
            /\ sessions = <<>> => points = <<>>

\* The buckets of the latest call before their breakdowns are collapsed.
RawBuckets ==
    sortedBuckets(sessions, seriesOut.metric, seriesOut.size, seriesOut.breakdown)

\* The categories of the latest call and their totals over all buckets.
CategoryTotals == globalTotalsOf(<<>>, RawBuckets)

\* The value of a category in a breakdown, 0 when it has none.
ValueIn(entries, name) == IF MapHas(entries, name) THEN MapGet(entries, name) ELSE 0

\* C7: with a breakdown of top N, there is a set of at most N categories,
\* those with the greatest totals over all buckets, such that in every
\* bucket each of them that has a value is shown under its own name with
\* that value, the values of all other categories are summed into the entry
\* "other", which is present only when that sum is not zero, and nothing
\* else is shown; each breakdown has at most N + 1 keys.
C7_TopNAndOther ==
    (seriesOut # <<>> /\ seriesOut.breakdown # NoBreakdown) =>
        LET N == seriesOut.breakdown.top
            other == OtherName(seriesOut.breakdown.by)
            points == seriesOut.points
        IN  \E topSet \in SUBSET MapKeys(CategoryTotals) :
                /\ Cardinality(topSet) <= N
                /\ Cardinality(topSet) = N
                       \/ topSet = MapKeys(CategoryTotals)
                /\ \A c \in topSet, d \in MapKeys(CategoryTotals) \ topSet :
                       ValueIn(CategoryTotals, c) >= ValueIn(CategoryTotals, d)
                /\ \A j \in 1..Len(points) :
                       LET raw == RawBuckets[j].breakdown
                           shown == points[j].breakdown
                           rest == otherSum(raw, topSet)
                       IN  /\ Len(shown) <= N + 1
                           /\ MapKeys(shown) \subseteq topSet \cup {other}
                           /\ \A c \in topSet :
                                  MapHas(raw, c) =>
                                      /\ MapHas(shown, c)
                                      /\ c # other \/ rest = 0 =>
                                             MapGet(shown, c) = MapGet(raw, c)
                           /\ rest # 0 => MapHas(shown, other)
                           /\ rest # 0 /\ other \notin topSet =>
                                  MapGet(shown, other) = rest
                           /\ rest = 0 => ~MapHas(shown, other)

(***************************************************************************)
(* Claims about a run over a session directory                             *)
(***************************************************************************)
\* The file holds a session header entry.
HasHeaderLine(ls) == \E i \in 1..Len(ls) : ls[i].k = "session"

\* The discovered files that can be read and hold a session header, in
\* discovery order.
FilesWithHeader ==
    SelectSeq(PathOrder,
              LAMBDA p : files[p].readable /\ HasHeaderLine(files[p].lines))

\* The id of the first header of a file.
HeaderIdOf(ls) ==
    ls[CHOOSE i \in 1..Len(ls) :
           ls[i].k = "session" /\ \A j \in 1..(i - 1) : ls[j].k # "session"].id

\* C11: parseAllSessions returns exactly one SessionStats for each
\* discovered file that can be read and holds a session header, in discovery
\* order; an unreadable or headerless file adds nothing and stops nothing.
C11_OneStatsPerFileWithHeader ==
    (runOut # <<>> /\ runOut.mode = "plain") =>
        /\ Len(runOut.results) = Len(FilesWithHeader)
        /\ \A i \in 1..Len(FilesWithHeader) :
               i <= Len(runOut.results) =>
                   runOut.results[i].id = HeaderIdOf(files[FilesWithHeader[i]].lines)

\* The entries the statistics of the parsed file are computed from.
ParsedEntries == parseSessionFile(lines)

\* A message entry: an entry of type message whose message carries a role
\* (SessionMessageEntry of types.ts).
IsMessageEntry(e) == e.k = "message" /\ e.role # ""

IsAssistant(e) == IsMessageEntry(e) /\ e.role = "assistant"

IsErrorResult(e) == IsMessageEntry(e) /\ e.role = "toolResult" /\ e.isError

ToolNames == {"bash", "read"}

\* The positions of the error results that name the tool after a toolCall
\* block for it occurred in file order.
ErrorsAfterCall(es, name) ==
    {i \in 1..Len(es) :
        /\ IsErrorResult(es[i])
        /\ es[i].toolName = name
        /\ \E j \in 1..(i - 1) :
               IsAssistant(es[j]) /\ name \in Range(es[j].calls)}

WasCalled(es, name) ==
    \E j \in 1..Len(es) : IsAssistant(es[j]) /\ name \in Range(es[j].calls)

\* C12: every toolResult message with the error flag increments toolErrors;
\* a tool's errors counter counts the error results for its name that follow
\* a toolCall block for it in file order; an error result for a name with no
\* earlier call creates no tools-map entry, changes no per-tool counter and
\* raises no exception.
C12_ToolErrorsOnlyAfterCall ==
    /\ result = Thrown => \E i \in 1..Len(lines) : lines[i].k = "null"
    /\ result.kind = "stats" =>
           /\ result.stats.toolErrors =
                  Cardinality({i \in 1..Len(ParsedEntries) :
                                  IsErrorResult(ParsedEntries[i])})
           /\ MapKeys(result.stats.tools) \subseteq ToolNames
           /\ \A name \in ToolNames :
                  IF WasCalled(ParsedEntries, name)
                  THEN /\ MapHas(result.stats.tools, name)
                       /\ MapGet(result.stats.tools, name).errors =
                              Cardinality(ErrorsAfterCall(ParsedEntries, name))
                  ELSE ~MapHas(result.stats.tools, name)

\* An error result for bash precedes the only call of bash.
C12_Witness ==
    /\ result.kind = "stats"
    /\ result.stats.toolErrors = 1
    /\ MapHas(result.stats.tools, "bash")
    /\ MapGet(result.stats.tools, "bash").errors = 0
    /\ MapGet(result.stats.tools, "bash").calls = 1

RECURSIVE ToolCallBlocks(_)
ToolCallBlocks(es) ==
    IF es = <<>> THEN 0
    ELSE (IF IsAssistant(Head(es)) THEN Len(Head(es).calls) ELSE 0)
             + ToolCallBlocks(Tail(es))

RECURSIVE SumOfCalls(_)
SumOfCalls(pairs) ==
    IF pairs = <<>> THEN 0 ELSE Head(pairs)[2].calls + SumOfCalls(Tail(pairs))

\* C13: toolCalls is the number of toolCall content blocks over all assistant
\* messages, each block counted once also when a message holds several, and
\* it is the sum of calls over the tools map.
C13_ToolCallsCountBlocks ==
    result.kind = "stats" =>
        /\ result.stats.toolCalls = ToolCallBlocks(ParsedEntries)
        /\ result.stats.toolCalls = SumOfCalls(result.stats.tools)

\* One assistant message with two toolCall blocks.
C13_Witness ==
    /\ result.kind = "stats"
    /\ result.stats.assistantMessages = 1
    /\ result.stats.toolCalls = 2

FirstHeader(es) ==
    es[CHOOSE i \in 1..Len(es) :
           es[i].k = "session" /\ \A j \in 1..(i - 1) : es[j].k # "session"]

\* The timestamp of a message entry: the message's own when it has one,
\* else the entry's.
MessageTime(e) == IF e.mts # 0 THEN e.mts ELSE e.timestamp

MessageTimes(es) ==
    {MessageTime(es[i]) : i \in {j \in 1..Len(es) : IsMessageEntry(es[j])}}

MaxOf(S) == CHOOSE x \in S : \A y \in S : y <= x

\* C14: startTime is the header's timestamp, endTime the largest of the
\* header's timestamp and the timestamps of the message entries (a message's
\* own timestamp before the entry's), duration their difference: never
\* negative, in any entry order, and 0 when there is no message entry.
C14_DurationFromHeaderToLastMessage ==
    result.kind = "stats" =>
        LET header == FirstHeader(ParsedEntries)
            times == MessageTimes(ParsedEntries)
        IN  /\ result.stats.startTime = header.timestamp
            /\ result.stats.endTime = MaxOf({header.timestamp} \cup times)
            /\ result.stats.duration =
                   result.stats.endTime - result.stats.startTime
            /\ result.stats.duration >= 0
            /\ times = {} => result.stats.duration = 0

\* A message dated before the header and one whose own timestamp is later
\* than its entry's.
C14_Witness ==
    /\ result.kind = "stats"
    /\ result.stats.startTime = 20
    /\ result.stats.endTime = 50
    /\ \E i \in 1..Len(lines) : lines[i] = UserLine(10)

\* C15: Cache.set never raises: when the cache location cannot be created or
\* written, it returns normally.
C15_SetNeverRaises == setOutcome # <<>> => setOutcome.last = "returned"

\* A record as Cache.set writes it: JSON text of an entry with a mtime and a
\* stats object that has the fields of SerializedSessionStats.
WellFormedRecord(c) ==
    c.k = "json" /\ c.v.k = "entry" /\ c.v.stats.k = "object"

\* C16: Cache.get returns null for a record file that is missing, cannot be
\* read, does not parse as JSON or is not a well-formed record.
C16_GetMissOnDamagedRecord ==
    [][(got' # <<>> /\ UNCHANGED store
           /\ ~WellFormedRecord(FileOf(store, got'.path)))
          => got'.value = CacheMiss]_vars

\* C17: a run of parseAllSessions with the cache enabled, over session files
\* that all yield stats, leaves in the v1 folder exactly one record per
\* session file, holding that file's mtime and stats (the record writes of
\* the run succeeding).
C17_RunLeavesOneRecordPerFile ==
    [][LET run == parseAllSessionsCached(files, store, {})
       IN  (/\ runOut' = [mode |-> "cache", results |-> run.results]
            /\ store' = run.store
            /\ UNCHANGED files
            /\ Len(parseAllSessions(files)) = Len(PathOrder))
               => /\ DOMAIN store' = {cacheFilePath(p) : p \in SessionPaths}
                  /\ \A p \in SessionPaths :
                         store'[cacheFilePath(p)] =
                             RecordOf(files[p].mtime,
                                      parseDiscovered(files[p]).stats)]_vars

(***************************************************************************)
(* Claims about the periods                                                *)
(***************************************************************************)
NoExplicitBounds(opts) == opts.from = Undefined /\ opts.to = Undefined

NoProjectFilters(opts) == opts.project = <<>> /\ opts.excludeProjects = <<>>

\* C18: with the period all, no explicit bound and no project filter,
\* filterSessions returns every input session, whatever its startTime (one
\* later than the current instant included).
C18_AllKeepsEverySession ==
    (/\ filterOut # <<>>
     /\ filterOut.opts.period = "all"
     /\ NoExplicitBounds(filterOut.opts)
     /\ NoProjectFilters(filterOut.opts))
        => filterOut.result = sessions

\* The calendar day of an instant in local time, counted from 1970-01-01,
\* its day of the week (0 is Sunday; 1970-01-01 was a Thursday) and the
\* instant of local midnight of a day.
LocalDayOf(t) == (t + LocalOffset) \div MinutesPerDay

WeekdayOf(day) == (day + 4) % 7

LocalMidnightOf(day) == day * MinutesPerDay - LocalOffset

MondayOnOrBefore(day) == CHOOSE m \in (day - 6)..day : WeekdayOf(m) = 1

\* C19: the range of the period week starts at local midnight of the most
\* recent Monday on or before the date of now (that date itself on a Monday,
\* six days earlier on a Sunday) and ends at now, so from <= now and from is
\* at most six calendar days before the date of now; filterSessions keeps
\* the sessions that started in it.
C19_WeekStartsOnMonday ==
    (/\ filterOut # <<>>
     /\ filterOut.opts.period = "week"
     /\ NoExplicitBounds(filterOut.opts))
        => LET r == rangeOf(filterOut.opts, filterOut.at)
               today == LocalDayOf(filterOut.at)
           IN  /\ r.from = LocalMidnightOf(MondayOnOrBefore(today))
               /\ r.to = filterOut.at
               /\ r.from <= filterOut.at
               /\ today - LocalDayOf(r.from) \in 0..6
               /\ WeekdayOf(today) = 1 => LocalDayOf(r.from) = today
               /\ WeekdayOf(today) = 0 => LocalDayOf(r.from) = today - 6
               /\ NoProjectFilters(filterOut.opts) =>
                      filterOut.result =
                          SelectSeq(sessions,
                                    LAMBDA s : /\ r.from <= s.startTime
                                               /\ s.startTime <= filterOut.at)

\* On a Sunday the week that began six days earlier keeps the session of its
\* Monday and drops an older one.
C19_Witness ==
    /\ filterOut # <<>>
    /\ filterOut.opts.period = "week"
    /\ NoExplicitBounds(filterOut.opts)
    /\ NoProjectFilters(filterOut.opts)
    /\ WeekdayOf(LocalDayOf(filterOut.at)) = 0
    /\ Len(sessions) = 2
    /\ Len(filterOut.result) = 1
    /\ LocalDayOf(filterOut.result[1].startTime) = LocalDayOf(filterOut.at) - 6

(***************************************************************************)
(* Claims about the aggregated tools                                       *)
(***************************************************************************)
\* The positions of the input sessions whose tools map has the name.
SessionsUsing(ss, name) == {i \in 1..Len(ss) : MapHas(ss[i].tools, name)}

\* C20: for every tool name of AggregatedStats.tools, sessionIds is the set
\* of the ids of the input sessions whose tools map contains the name (at
\* most totalSessions of them, whatever the number of calls) and lastUsed is
\* the latest endTime among these sessions; the names are those of the
\* sessions' tools maps.
C20_ToolSessionIdsAndLastUsed ==
    aggOut # <<>> =>
        /\ MapKeys(aggOut.result.tools) =
               UNION {MapKeys(sessions[i].tools) : i \in 1..Len(sessions)}
        /\ \A k \in 1..Len(aggOut.result.tools) :
               LET name == aggOut.result.tools[k][1]
                   tool == aggOut.result.tools[k][2]
                   using == SessionsUsing(sessions, name)
               IN  /\ tool.sessionIds = {sessions[i].id : i \in using}
                   /\ Cardinality(tool.sessionIds) <= aggOut.result.totalSessions
                   /\ tool.lastUsed = MaxOf({sessions[i].endTime : i \in using})

\* A tool used by the first two of three sessions, called more often than
\* there are sessions, and last used by the first of them.
C20_Witness ==
    /\ aggOut # <<>>
    /\ Len(sessions) = 3
    /\ \E k \in 1..Len(aggOut.result.tools) :
           LET name == aggOut.result.tools[k][1]
               tool == aggOut.result.tools[k][2]
           IN  /\ SessionsUsing(sessions, name) = {1, 2}
               /\ Cardinality(tool.sessionIds) = 2
               /\ tool.calls > 3
               /\ sessions[1].endTime > sessions[2].endTime
               /\ tool.lastUsed = sessions[1].endTime

(***************************************************************************)
(* Claims about the aggregated models                                      *)
(***************************************************************************)
PositionsOfAt(key) == {i \in 1..Len(key) : key[i] = "@"}

AfterLastAt(key) == SubSeq(key, MaxOf(PositionsOfAt(key)) + 1, Len(key))

BeforeLastAt(key) == SubSeq(key, 1, MaxOf(PositionsOfAt(key)) - 1)

\* A text that consists of digits only (one digit at least).
OnlyDigits(text) == text # <<>> /\ Range(text) \subseteq Digits

\* The pair C21 gives for a key.
C21_Split(key) ==
    IF PositionsOfAt(key) = {} \/ OnlyDigits(AfterLastAt(key))
    THEN <<key, <<"u", "n", "k", "n", "o", "w", "n">>>>
    ELSE <<BeforeLastAt(key), AfterLastAt(key)>>

IsFirstMaximum(top, map, field) ==
    IF map = <<>> THEN top = <<>>
    ELSE \E i \in 1..Len(map) :
            /\ top = map[i]
            /\ \A j \in 1..Len(map) : ~(map[j][2][field] > map[i][2][field])
            /\ \A j \in 1..(i - 1) : map[j][2][field] < map[i][2][field]

\* C22: topBy(map, field) is null for an empty map, and otherwise the first
\* entry in insertion order whose value at the field is the maximum: no
\* entry has a strictly greater value, every earlier entry a strictly
\* smaller one.
C22_TopByFirstMaximum ==
    topOut # <<>> =>
        /\ IsFirstMaximum(topOut.topTool, aggOut.result.tools, "calls")
        /\ IsFirstMaximum(topOut.topModel, aggOut.result.models, "calls")
        /\ IsFirstMaximum(topOut.topProject, aggOut.result.projects, "sessions")

\* Two tools tie in calls and the first inserted is the top; the top model
\* is not the first inserted.
C22_Witness ==
    /\ topOut # <<>>
    /\ Len(aggOut.result.tools) = 2
    /\ aggOut.result.tools[1][2].calls = aggOut.result.tools[2][2].calls
    /\ topOut.topTool = aggOut.result.tools[1]
    /\ Len(aggOut.result.models) >= 2
    /\ topOut.topModel # aggOut.result.models[1]

(***************************************************************************)
(* Claims about the directory names                                        *)
(***************************************************************************)
EndsWith(s, p) == Len(s) >= Len(p) /\ SubSeq(s, Len(s) - Len(p) + 1, Len(s)) = p

\* A name wrapped in -- on both sides.
IsWrapped(name) ==
    Len(name) >= 4 /\ StartsWith(name, <<"-", "-">>) /\ EndsWith(name, <<"-", "-">>)

InnerOf(name) == SubSeq(name, 3, Len(name) - 2)

\* A name of the form --a-b-c--: between the wrapping, components that are
\* not empty, separated by single hyphens.
IsEncodedPath(name) ==
    /\ IsWrapped(name)
    /\ InnerOf(name) # <<>>
    /\ Head(InnerOf(name)) # "-"
    /\ InnerOf(name)[Len(InnerOf(name))] # "-"
    /\ \A i \in 1..(Len(InnerOf(name)) - 1) :
           ~(InnerOf(name)[i] = "-" /\ InnerOf(name)[i + 1] = "-")

HyphensToSlashes(text) == [i \in 1..Len(text) |-> IF text[i] = "-" THEN "/" ELSE text[i]]

\* C23: decodeDirName maps a name of the form --a-b-c-- to the path /a/b/c
\* and returns a name that is not wrapped in -- unchanged.
C23_DecodeOrAsIs ==
    decoded # <<>> =>
        /\ IsEncodedPath(decoded.dirName) =>
               decoded.cwd = <<"/">> \o HyphensToSlashes(InnerOf(decoded.dirName))
        /\ ~IsWrapped(decoded.dirName) => decoded.cwd = decoded.dirName

(***************************************************************************)
(* Claims about concurrent invocations                                     *)
(***************************************************************************)
\* C24: whatever the interleaving of the reads and the write steps of two
\* invocations on the record of one session path, each Cache.get returns
\* null or stats that some Cache.set stored for the path under the requested
\* mtime.
C24_GetReturnsNullOrStoredStats ==
    race # <<>> =>
        \A p \in Invocations :
            race.got[p] # <<>> =>
                \/ race.got[p].value = CacheMiss
                \/ <<race.got[p].mtime, race.got[p].value.stats>> \in race.sets

(***************************************************************************)
(* Claims about the objects                                                *)
(***************************************************************************)
\* C25: after any sequence of calls of filterSessions, aggregate,
\* buildTimeSeries and Cache.set, every object of every SessionStats passed
\* in (scalar fields, tokens, Dates, tool and model entries) is as it was,
\* and the objects of the first aggregate are as that call left them.
C25_SessionsNeverMutated ==
    heap # <<>> =>
        /\ \A a \in DOMAIN SessionObjects(sessions) :
               heap.cells[a] = SessionObjects(sessions)[a]
        /\ heap.first # <<>> =>
               \A a \in DOMAIN heap.first : heap.cells[a] = heap.first[a]

\* Two aggregate calls with a weekly series between them, over two sessions
\* that share a tool.
C25_Witness ==
    /\ heap # <<>>
    /\ heap.log = <<"aggregate", "series", "aggregate">>
    /\ Len(sessions) = 2
    /\ sessions[1].id # sessions[2].id
    /\ \E a \in DOMAIN heap.cells : a[1] = "series" /\ a[3] = "dt"
    /\ \E k \in 1..Len(heap.cells[AggStats(3)].tools) :
           Cardinality(heap.cells[heap.cells[AggStats(3)].tools[k][2]].sessionIds) = 2

(***************************************************************************)
(* Claims about the breakdowns of a series                                 *)
(***************************************************************************)
RECURSIVE SumOfValues(_)
SumOfValues(entries) ==
    IF entries = <<>> THEN 0 ELSE Head(entries)[2] + SumOfValues(Tail(entries))

\* C26: collapsing to the top N keeps the total of each bucket's breakdown:
\* the values of the final breakdown, "other" included, add up to the values
\* the bucket had per category before collapsing, also when a real category
\* is itself named "other".
C26_CollapseKeepsBucketTotal ==
    (seriesOut # <<>> /\ seriesOut.breakdown # NoBreakdown) =>
        \A j \in 1..Len(seriesOut.points) :
            SumOfValues(seriesOut.points[j].breakdown) =
                SumOfValues(RawBuckets[j].breakdown)

\* The same on the runs where no category is named "other".
C26_KeepsTotalWithoutRealOther ==
    (seriesOut # <<>> /\ seriesOut.breakdown # NoBreakdown
       /\ OtherName(seriesOut.breakdown.by) \notin MapKeys(CategoryTotals)) =>
        \A j \in 1..Len(seriesOut.points) :
            SumOfValues(seriesOut.points[j].breakdown) =
                SumOfValues(RawBuckets[j].breakdown)

\* The series of the latest call broken down by provider instead.
SeriesByProvider ==
    buildTimeSeries(sessions, seriesOut.metric, seriesOut.size,
                    [by |-> "provider", top |-> seriesOut.breakdown.top])

\* The session has two model keys with the same bare model name.
SharesBareModel(session) ==
    \E i, k \in 1..Len(session.models) :
        /\ i # k
        /\ splitModelKey(session.models[i][1])[1] =
               splitModelKey(session.models[k][1])[1]

\* C27: under a breakdown by model every model entry of a session
\* contributes its value, the values of the keys of one session that share
\* a bare model name under different providers being added; so in every
\* bucket the breakdown by model and the breakdown by provider have the
\* same total.
C27_ModelAndProviderSameTotal ==
    (seriesOut # <<>> /\ seriesOut.breakdown.by = "model") =>
        /\ Len(SeriesByProvider) = Len(seriesOut.points)
        /\ \A j \in 1..Len(seriesOut.points) :
               SumOfValues(seriesOut.points[j].breakdown) =
                   SumOfValues(SeriesByProvider[j].breakdown)

\* The same on the runs where no session has two keys of one bare model.
C27_SameTotalWithoutSharedModel ==
    (seriesOut # <<>> /\ seriesOut.breakdown.by = "model"
       /\ \A i \in 1..Len(sessions) : ~SharesBareModel(sessions[i])) =>
        \A j \in 1..Len(seriesOut.points) :
            SumOfValues(seriesOut.points[j].breakdown) =
                SumOfValues(SeriesByProvider[j].breakdown)

\* A series with each breakdown Map read as its set of entries.
PointsAsSets(points) ==
    [j \in 1..Len(points) |->
        [date |-> points[j].date, label |-> points[j].label,
         value |-> points[j].value, breakdown |-> MapPairs(points[j].breakdown)]]

\* C28: buildTimeSeries does not depend on the order of its input: every
\* permutation of the sessions gives the same sequence of points, with the
\* same values and the same breakdown maps, ties of the global totals at the
\* top-N cut-off included.
C28_SeriesIndependentOfOrder ==
    seriesOut # <<>> =>
        \A perm \in ListPermutations(sessions) :
            PointsAsSets(buildTimeSeries(perm, seriesOut.metric, seriesOut.size,
                                         seriesOut.breakdown))
                = PointsAsSets(seriesOut.points)

\* The same for the dates, labels and values of the points of the hourly,
\* daily and monthly series.
C28_ValuesIndependentOfOrder ==
    (seriesOut # <<>> /\ seriesOut.size # "weekly") =>
        \A perm \in ListPermutations(sessions) :
            LET other == buildTimeSeries(perm, seriesOut.metric, seriesOut.size,
                                         seriesOut.breakdown)
            IN  /\ Len(other) = Len(seriesOut.points)
                /\ \A j \in 1..Len(other) :
                       /\ other[j].date = seriesOut.points[j].date
                       /\ other[j].label = seriesOut.points[j].label
                       /\ other[j].value = seriesOut.points[j].value

(***************************************************************************)
(* Claims about loadAndAggregate                                           *)
(***************************************************************************)
\* C29: after filterSessions and aggregate of what it kept, under a
\* period-based filter, every session in AggregatedStats.sessions has its
\* startTime within the [period.from, period.to] of that AggregatedStats,
\* also when the clock advances between the two calls.
C29_SessionsWithinReportedPeriod ==
    (comp = "pipeline" /\ aggOut # <<>>) =>
        \A i \in 1..Len(aggOut.result.sessions) :
            /\ aggOut.result.period.from <= aggOut.result.sessions[i].startTime
            /\ aggOut.result.sessions[i].startTime <= aggOut.result.period.to

\* The same when both calls read the same clock.
C29_WithinPeriodOnOneClock ==
    (comp = "pipeline" /\ aggOut # <<>> /\ aggOut.at = filterOut.at) =>
        \A i \in 1..Len(aggOut.result.sessions) :
            /\ aggOut.result.period.from <= aggOut.result.sessions[i].startTime
            /\ aggOut.result.sessions[i].startTime <= aggOut.result.period.to

(***************************************************************************)
(* Claims about the projects of an aggregate                               *)
(***************************************************************************)
RECURSIVE SumOfField(_, _)
SumOfField(entries, field) ==
    IF entries = <<>> THEN 0
    ELSE Head(entries)[2][field] + SumOfField(Tail(entries), field)

\* C30: the project entries partition the totals: over all projects the
\* sessions, messages, toolCalls and tokens add up to totalSessions,
\* totalMessages, totalToolCalls and totalTokens.total, and every input
\* session is counted under exactly one project key.
C30_ProjectsPartitionTotals ==
    (comp = "aggregator" /\ aggOut # <<>>) =>
        LET a == aggOut.result
        IN  /\ SumOfField(a.projects, "sessions") = a.totalSessions
            /\ SumOfField(a.projects, "messages") = a.totalMessages
            /\ SumOfField(a.projects, "toolCalls") = a.totalToolCalls
            /\ SumOfField(a.projects, "tokens") = a.totalTokens.total
            /\ a.totalSessions = Len(sessions)
            /\ \A i \in 1..Len(sessions) :
                   Cardinality({k \in 1..Len(a.projects) :
                                   a.projects[k][1] = sessions[i].project}) = 1
            /\ \A k \in 1..Len(a.projects) :
                   a.projects[k][2].sessions =
                       Cardinality({i \in 1..Len(sessions) :
                                       sessions[i].project = a.projects[k][1]})

\* Three sessions in two projects, with messages, tool calls and tokens.
C30_Witness ==
    /\ comp = "aggregator"
    /\ aggOut # <<>>
    /\ Len(sessions) = 3
    /\ Len(aggOut.result.projects) = 2
    /\ \E k \in 1..2 : aggOut.result.projects[k][2].sessions = 2
    /\ \A k \in 1..2 : /\ aggOut.result.projects[k][2].messages > 0
                       /\ aggOut.result.projects[k][2].tokens > 0
                       /\ aggOut.result.projects[k][2].toolCalls > 0

====
